---- MODULE Spec2Model ----
(***************************************************************************)
(* Model of MOSAIC's extraction system (src/modules/Collecte.py): the      *)
(* eight platform extractors, the JSON persistence helper and the          *)
(* ExtractorOrchestrator loop that runs them one after the other.          *)
(*                                                                         *)
(* Strings are TLA+ strings (Len, \o and SubSeq work on them).  The clock  *)
(* `now` counts half seconds since 2026-01-01 00:00:00 local time, so that *)
(* time.sleep(0.5) and time.sleep(1) are both whole steps.                 *)
(***************************************************************************)
EXTENDS Integers, Sequences, FiniteSets, TLC

VARIABLES
    platforms,   \* _run_extractions: the list of selected platform ids
    usernames,   \* _run_extractions: platform id -> target identity
    config,      \* ExtractorOrchestrator.config (credentials present or not)
    idx,         \* _run_extractions: 1-based position in platforms
    opc,         \* where the orchestrator loop is
    results,     \* ExtractorOrchestrator.results: platform name -> outcome
    cwd,         \* files of the working directory: name -> content
    resdir,      \* files of the results directory: path -> content
    now,         \* wall clock, in half seconds
    cpc,         \* where the running extractor's run() is
    mem,         \* local variables of the running extractor's run()
    ret,         \* value returned by run(): a filename, or RetNone
    reqlog,      \* history: requests issued by the current run(), in order
    writes,      \* history: the files written by the code of the current
                 \* run(), in order (what a library keeps on disk for itself,
                 \* such as an import cache or a session store, is not counted)
    stub,        \* the outside of the step under study: what a prompt was
                 \* given and answered, or the pages a mock server holds
    ran,         \* history: names of the platforms started, in order
    slept,       \* history: the cooldowns of the loop, in order
    start_time,  \* ExtractorOrchestrator.start_time
    summary      \* history: what _show_summary reported, in order

vars == <<platforms, usernames, config, idx, opc, results, cwd, resdir, now,
          cpc, mem, ret, reqlog, writes, stub, ran, slept, start_time,
          summary>>

orchVars   == <<platforms, usernames, config, idx, opc, results, resdir, ran,
                slept, start_time, summary>>
clientVars == <<cpc, mem, ret, reqlog, writes>>

-----------------------------------------------------------------------------
(* Small helpers *)

Min(a, b) == IF a < b THEN a ELSE b

Char(s, i) == SubSeq(s, i, i)

Range(f) == {f[x] : x \in DOMAIN f}

\* The first n items of a list: Python's lst[:n]
Take(s, n) == SubSeq(s, 1, Min(Len(s), n))

\* A dict with key k set to v (an existing key is overwritten)
Put(f, k, v) == (k :> v) @@ f

\* A directory without the file k
Without(f, k) == [x \in DOMAIN f \ {k} |-> f[x]]

-----------------------------------------------------------------------------
(* Python string operations, on the characters the model types:            *)
(* digits, ",", " ", "-", letters and the punctuation of a Link header.     *)

IsSpace(c) == c = " "

DigitChars == {"0", "1", "2", "3", "4", "5", "6", "7", "8", "9"}

Tail1(s) == SubSeq(s, 2, Len(s))

RECURSIVE LStrip(_)
LStrip(s) ==
    IF Len(s) > 0 /\ IsSpace(Char(s, 1)) THEN LStrip(Tail1(s)) ELSE s

RECURSIVE RStrip(_)
RStrip(s) ==
    IF Len(s) > 0 /\ IsSpace(Char(s, Len(s)))
    THEN RStrip(SubSeq(s, 1, Len(s) - 1)) ELSE s

\* str.strip()
StrStrip(s) == RStrip(LStrip(s))

\* the least position of the substring sub in s, or 0
Find(s, sub) ==
    LET hits == {i \in 1..(Len(s) - Len(sub) + 1) :
                    SubSeq(s, i, i + Len(sub) - 1) = sub} IN
    IF hits = {} THEN 0 ELSE CHOOSE i \in hits : \A j \in hits : i <= j

\* sub in s
Contains(s, sub) == Find(s, sub) # 0

\* str.split(sep) for a one-character separator: "".split(",") is [""]
RECURSIVE StrSplit(_, _)
StrSplit(s, sep) ==
    LET i == Find(s, sep) IN
    IF i = 0 THEN <<s>>
    ELSE <<SubSeq(s, 1, i - 1)>> \o StrSplit(SubSeq(s, i + 1, Len(s)), sep)

\* str.replace(old, "") for a one-character old
RECURSIVE StrRemove(_, _)
StrRemove(s, old) ==
    IF Len(s) = 0 THEN s
    ELSE (IF Char(s, 1) = old THEN "" ELSE Char(s, 1)) \o StrRemove(Tail1(s), old)

\* s[1:-1]
Inner(s) == SubSeq(s, 2, Len(s) - 1)

\* int(s) succeeds: optional surrounding blanks, an optional sign, then
\* decimal digits only
PyIntOk(s) ==
    LET t == StrStrip(s)
        body == IF Len(t) > 0 /\ Char(t, 1) \in {"-", "+"} THEN Tail1(t) ELSE t IN
    /\ Len(body) > 0
    /\ \A i \in 1..Len(body) : Char(body, i) \in DigitChars

DigitVal(c) == CHOOSE d \in 0..9 : Char("0123456789", d + 1) = c

RECURSIVE DigitsVal(_)
DigitsVal(body) ==
    IF Len(body) = 0 THEN 0
    ELSE 10 * DigitsVal(SubSeq(body, 1, Len(body) - 1)) + DigitVal(Char(body, Len(body)))

\* int(s), where PyIntOk(s)
PyInt(s) ==
    LET t == StrStrip(s) IN
    IF Char(t, 1) = "-" THEN 0 - DigitsVal(Tail1(t))
    ELSE IF Char(t, 1) = "+" THEN DigitsVal(Tail1(t))
    ELSE DigitsVal(t)

-----------------------------------------------------------------------------
(* Bounds of the model *)

\* longest list of selected platforms
MaxSelected == 2

-----------------------------------------------------------------------------
(* ExtractorOrchestrator.PLATFORMS *)

PlatformIds == 1..8

PlatformName(pid) ==
    CASE pid = 1 -> "stackoverflow"
      [] pid = 2 -> "youtube"
      [] pid = 3 -> "github"
      [] pid = 4 -> "bluesky"
      [] pid = 5 -> "mastodon"
      [] pid = 6 -> "reddit"
      [] pid = 7 -> "medium"
      [] pid = 8 -> "telegram"

PlatformNames == {PlatformName(p) : p \in PlatformIds}

-----------------------------------------------------------------------------
(* datetime.now().strftime('%Y%m%d_%H%M%S') and datetime.now().isoformat() *)

Digit(d) == Char("0123456789", d + 1)

Pad2(n) == Digit((n \div 10) % 10) \o Digit(n % 10)

Pad4(n) == Pad2(n \div 100) \o Pad2(n % 100)

SecondsOf(t) == t \div 2

Year(t)   == 2026
Month(t)  == 1
Day(t)    == 1 + (SecondsOf(t) \div 86400)
Hour(t)   == (SecondsOf(t) \div 3600) % 24
Minute(t) == (SecondsOf(t) \div 60) % 60
Second(t) == SecondsOf(t) % 60

\* the same fields without the separator
StrftimeCompact(t) ==
    Pad4(Year(t)) \o Pad2(Month(t)) \o Pad2(Day(t))
        \o Pad2(Hour(t)) \o Pad2(Minute(t)) \o Pad2(Second(t))

\* strftime('%Y%m%d_%H%M%S')
Strftime(t) ==
    Pad4(Year(t)) \o Pad2(Month(t)) \o Pad2(Day(t)) \o "_"
        \o Pad2(Hour(t)) \o Pad2(Minute(t)) \o Pad2(Second(t))

\* isoformat(): the microseconds are printed only when they are not zero
IsoFormat(t) ==
    Pad4(Year(t)) \o "-" \o Pad2(Month(t)) \o "-" \o Pad2(Day(t)) \o "T"
        \o Pad2(Hour(t)) \o ":" \o Pad2(Minute(t)) \o ":" \o Pad2(Second(t))
        \o (IF t % 2 = 1 THEN ".500000" ELSE "")

-----------------------------------------------------------------------------
(* BaseExtractor._save_json *)

RetNone == ""

\* filename = f"{self.platform_name}_{username}_{timestamp}.json"
SaveJsonName(platform_name, username, t) ==
    platform_name \o "_" \o username \o "_" \o Strftime(t) \o ".json"

WriteNothing(dir, filename, data) == dir

\* with open(filename, 'w') as f: json.dump(data, f): the file is created,
\* or an existing file of that name is replaced
WriteFile(dir, filename, data) == Put(dir, filename, data)

-----------------------------------------------------------------------------
(* What the upstream services may answer.  A request either succeeds with a *)
(* well-formed body ("ok"), raises requests.RequestException ("reqexc": a   *)
(* timeout, a network failure, an HTTP error status), or succeeds with a    *)
(* body that is valid JSON of an unexpected shape ("badshape": a missing    *)
(* key, a list where an object is expected, a non-numeric count), on which  *)
(* the parsing code raises KeyError, TypeError, AttributeError or           *)
(* ValueError.                                                              *)

Responses == {"ok", "reqexc", "badshape"}

\* One entry of the history of requests of the current run()
Req(site, role, resp, payload) ==
    [site |-> site, role |-> role, resp |-> resp, payload |-> payload]

Log(site, role, resp, payload) ==
    reqlog' = Append(reqlog, Req(site, role, resp, payload))

\* run() returns the name it would have saved under, whatever v is
ReturnGenerated(v) ==
    cpc' = "returned" /\ ret' = SaveJsonName(mem.platform, mem.username, now)

\* run() returns v
Return(v) == cpc' = "returned" /\ ret' = v

\* an exception leaves run()
Raise == cpc' = "raised" /\ ret' = RetNone

\* the extractor whose run() is in progress
Running(platform_name) == opc = "run" /\ mem.platform = platform_name

\* filename = self._save_json(data, username); ...; return filename
\* open() may raise OSError, which no run() catches; data holds only values
\* that were parsed from JSON or built by the extractor, so json.dump succeeds
SaveAndReturn(data, username) ==
    LET filename == SaveJsonName(mem.platform, username, now) IN
    \E w \in {"ok", "oserror"} :
        IF w = "ok"
        THEN /\ cwd' = WriteFile(cwd, filename, idx)
             /\ writes' = Append(writes, [name |-> filename, data |-> data])
             /\ Return(filename)
        ELSE /\ Raise
             /\ UNCHANGED <<cwd, writes>>

-----------------------------------------------------------------------------
(* GitHubExtractor *)

GitHubUsers == {[login |-> "octocat", public_repos |-> 8, followers |-> 100]}

GitHubRepos == {<<>>, <<"hello", "spoon">>}

GitHubEvents == {<<>>, <<"PushEvent">>}

\* _get_user_info: the info dict built from the profile
GitHubParseUser(user) ==
    [username |-> user.login, public_repos |-> user.public_repos,
     followers |-> user.followers]

\* a parser that hands the repositories back last one first
GitHubParseReposReversed(repos) ==
    [i \in 1..Len(repos) |-> [name |-> repos[Len(repos) + 1 - i]]]

\* _get_repositories: one parsed entry per repository, in order
GitHubParseRepos(repos) == [i \in 1..Len(repos) |-> [name |-> repos[i]]]

\* a parser that keeps no entry
GitHubParseNothing(events) == <<>>

\* _get_events: one parsed entry per event, in order
GitHubParseEvents(events) == [i \in 1..Len(events) |-> [type |-> events[i]]]

\* run(): import requests, header
GitHub_run ==
    /\ Running("github") /\ cpc = "entry"
    /\ \E imported \in BOOLEAN :
         IF imported THEN cpc' = "gh_user_info" /\ ret' = ret
                     ELSE Return(RetNone)
    /\ UNCHANGED <<orchVars, cwd, now, mem, reqlog, writes, stub>>

\* user_info = self._get_user_info(...); if not user_info: return None
GitHub_get_user_info ==
    /\ Running("github") /\ cpc = "gh_user_info"
    /\ \E resp \in Responses, user \in GitHubUsers :
         /\ Log("github.users", "profile", resp, IF resp = "ok" THEN user ELSE <<>>)
         /\ CASE resp = "ok" ->
                   /\ mem' = [mem EXCEPT !.user_info = GitHubParseUser(user)]
                   /\ cpc' = "gh_repositories" /\ ret' = ret
              [] resp = "reqexc" -> Return(RetNone) /\ mem' = mem
              [] resp = "badshape" -> Raise /\ mem' = mem
    /\ UNCHANGED <<orchVars, cwd, now, writes, stub>>

\* a _get_repositories without its except clause
GitHub_get_repositories_uncaught ==
    /\ Running("github") /\ cpc = "gh_repositories"
    /\ \E resp \in Responses, repos \in GitHubRepos :
         /\ Log("github.repos", "collection", resp, IF resp = "ok" THEN repos ELSE <<>>)
         /\ CASE resp = "ok" ->
                   /\ mem' = [mem EXCEPT !.repos = GitHubParseRepos(repos)]
                   /\ cpc' = "gh_events" /\ ret' = ret
              [] resp \in {"reqexc", "badshape"} -> Raise /\ mem' = mem
    /\ UNCHANGED <<orchVars, cwd, now, writes, stub>>

\* repos = self._get_repositories(...)
GitHub_get_repositories ==
    /\ Running("github") /\ cpc = "gh_repositories"
    /\ \E resp \in Responses, repos \in GitHubRepos :
         /\ Log("github.repos", "collection", resp, IF resp = "ok" THEN repos ELSE <<>>)
         /\ CASE resp = "ok" ->
                   /\ mem' = [mem EXCEPT !.repos = GitHubParseRepos(repos)]
                   /\ cpc' = "gh_events" /\ ret' = ret
              [] resp = "reqexc" ->
                   /\ mem' = [mem EXCEPT !.repos = <<>>]
                   /\ cpc' = "gh_events" /\ ret' = ret
              [] resp = "badshape" -> Raise /\ mem' = mem
    /\ UNCHANGED <<orchVars, cwd, now, writes, stub>>

\* events = self._get_events(...)
GitHub_get_events ==
    /\ Running("github") /\ cpc = "gh_events"
    /\ \E resp \in Responses, events \in GitHubEvents :
         /\ Log("github.events", "collection", resp, IF resp = "ok" THEN events ELSE <<>>)
         /\ CASE resp = "ok" ->
                   /\ mem' = [mem EXCEPT !.events = GitHubParseEvents(events)]
                   /\ cpc' = "gh_save" /\ ret' = ret
              [] resp = "reqexc" ->
                   /\ mem' = [mem EXCEPT !.events = <<>>]
                   /\ cpc' = "gh_save" /\ ret' = ret
              [] resp = "badshape" -> Raise /\ mem' = mem
    /\ UNCHANGED <<orchVars, cwd, now, writes, stub>>

\* data = {...}; filename = self._save_json(data, username); return filename
GitHub_save ==
    /\ Running("github") /\ cpc = "gh_save"
    /\ SaveAndReturn([user_info |-> mem.user_info, repositories |-> mem.repos,
                      events |-> mem.events, extraction_date |-> IsoFormat(now)],
                     mem.username)
    /\ UNCHANGED <<orchVars, now, mem, reqlog, stub>>

GitHubNext ==
    \/ GitHub_run
    \/ GitHub_get_user_info
    \/ GitHub_get_repositories
    \/ GitHub_get_events
    \/ GitHub_save

-----------------------------------------------------------------------------
(* The multi-select step of StackOverflowExtractor._select_user and         *)
(* YouTubeExtractor._select_channels.  cands is the list of the ids of the  *)
(* candidates found (well-formed entries), typed is what input() returns.   *)

InRangeAny(i, n) == TRUE

\* if 0 <= idx < len(users)
InRange(i, n) == 0 <= i /\ i < n

\* for part in choice.split(','): idx = int(part.strip()) - 1; the index is
\* kept when it is in range.  error: int() raised ValueError
RECURSIVE ParseParts(_, _, _)
ParseParts(parts, n, acc) ==
    IF parts = <<>> THEN [error |-> FALSE, indices |-> acc]
    ELSE IF ~PyIntOk(StrStrip(Head(parts))) THEN [error |-> TRUE, indices |-> acc]
    ELSE LET i == PyInt(StrStrip(Head(parts))) - 1 IN
         ParseParts(Tail(parts), n, IF InRange(i, n) THEN Append(acc, i) ELSE acc)

NoFallback(indices) == indices

\* if not selected_indices: warning; selected_indices = [0]
FirstIfEmpty(indices) == IF indices = <<>> THEN <<0>> ELSE indices

\* users[i] on a Python list of n items: a negative index counts from the
\* end, anything else out of range raises IndexError
PyIndexOk(i, n) == 0 - n <= i /\ i < n

PyIndex(i, n) == IF i < 0 THEN i + n ELSE i

\* the whole step: the ids selected, whether a warning was printed, and
\* whether an exception left the method
Selection(cands, typed, catches_index_error) ==
    LET n == Len(cands)
        choice == StrStrip(typed)
        fallback == [ids |-> <<cands[1]>>, warned |-> TRUE, raised |-> FALSE] IN
    IF choice = ""
    THEN [ids |-> cands, warned |-> FALSE, raised |-> FALSE]
    ELSE LET p == ParseParts(StrSplit(choice, ","), n, <<>>) IN
         IF p.error THEN fallback
         ELSE LET ind == FirstIfEmpty(p.indices) IN
              IF \A k \in 1..Len(ind) : PyIndexOk(ind[k], n)
              THEN [ids |-> [k \in 1..Len(ind) |-> cands[PyIndex(ind[k], n) + 1]],
                    warned |-> (p.indices = <<>>), raised |-> FALSE]
              ELSE IF catches_index_error THEN fallback
              ELSE [ids |-> <<>>, warned |-> (p.indices = <<>>), raised |-> TRUE]

\* _select_user: except (ValueError, KeyError)
StackOverflow_select_user(users, typed) == Selection(users, typed, FALSE)

\* _select_channels: except (ValueError, KeyError, IndexError)
YouTube_select_channels(channels, typed) == Selection(channels, typed, TRUE)

\* what the user types at the prompt during an orchestrator run
MainTyped == {"", "2", "x"}

-----------------------------------------------------------------------------
(* StackOverflowExtractor *)

StackOverflowUserLists == {<<>>, <<"u1">>, <<"u1", "u2">>}

StackOverflowItems == {<<"i1">>}

\* run(): imports, header
StackOverflow_run ==
    /\ Running("stackoverflow") /\ cpc = "entry"
    /\ \E imported \in BOOLEAN :
         IF imported THEN cpc' = "so_search" /\ ret' = ret
                     ELSE Return(RetNone)
    /\ UNCHANGED <<orchVars, cwd, now, mem, reqlog, writes, stub>>

\* users = self._search_users(...); if not users: return None
StackOverflow_search_users ==
    /\ Running("stackoverflow") /\ cpc = "so_search"
    /\ \E resp \in Responses, users \in StackOverflowUserLists :
         /\ Log("stackoverflow.users", "identity", resp,
                IF resp = "ok" THEN users ELSE <<>>)
         /\ CASE resp = "ok" /\ users # <<>> ->
                   /\ mem' = [mem EXCEPT !.users = users]
                   /\ cpc' = "so_select" /\ ret' = ret
              [] resp = "ok" /\ users = <<>> -> Return(RetNone) /\ mem' = mem
              [] resp = "reqexc" -> Return(RetNone) /\ mem' = mem
              [] resp = "badshape" -> Raise /\ mem' = mem
    /\ UNCHANGED <<orchVars, cwd, now, writes, stub>>

\* selected_ids = self._select_user(users); if not selected_ids: return None
StackOverflow_select_typed(typed) ==
    /\ Running("stackoverflow") /\ cpc = "so_select"
    /\   LET r == StackOverflow_select_user(mem.users, typed) IN
         /\ stub' = [step |-> "done", platform |-> "stackoverflow",
                    cands |-> mem.users, typed |-> typed] @@ r
         /\ IF r.raised THEN Raise /\ mem' = mem
            ELSE IF r.ids = <<>> THEN Return(RetNone) /\ mem' = mem
            ELSE /\ mem' = [mem EXCEPT !.selected_ids = r.ids, !.pos = 1]
                 /\ cpc' = "so_profile" /\ ret' = ret
    /\ UNCHANGED <<orchVars, cwd, now, reqlog, writes>>

StackOverflow_select == \E typed \in MainTyped : StackOverflow_select_typed(typed)

\* a loop over selected_ids that does not sleep between two users
StackOverflow_next_user_no_cooldown(m) ==
    IF m.pos < Len(m.selected_ids)
    THEN /\ mem' = [m EXCEPT !.pos = @ + 1]
         /\ now' = now
         /\ cpc' = "so_profile" /\ ret' = ret
    ELSE /\ mem' = m
         /\ now' = now
         /\ IF m.all_data = <<>> THEN Return(RetNone)
            ELSE cpc' = "so_save" /\ ret' = ret

\* the end of one turn of the loop over selected_ids, m being the locals at
\* that point: time.sleep(1) and the next id, or the end of the loop with
\* "if not all_users_data: return None"
StackOverflow_next_user(m) ==
    IF m.pos < Len(m.selected_ids)
    THEN /\ mem' = [m EXCEPT !.pos = @ + 1]
         /\ now' = now + 2
         /\ cpc' = "so_profile" /\ ret' = ret
    ELSE /\ mem' = m
         /\ now' = now
         /\ IF m.all_data = <<>> THEN Return(RetNone)
            ELSE cpc' = "so_save" /\ ret' = ret

\* _extract_user_data: user_info = self._get_profile(...); a failed request
\* (None from _make_request) or an empty items list skips this user
StackOverflow_get_profile ==
    /\ Running("stackoverflow") /\ cpc = "so_profile"
    /\ LET uid == mem.selected_ids[mem.pos] IN
       \E resp \in Responses \cup {"notfound"} :
         /\ Log("stackoverflow.profile", "profile", resp, uid)
         /\ CASE resp = "ok" ->
                   /\ mem' = [mem EXCEPT !.cur = [user_info |-> [user_id |-> uid]]]
                   /\ cpc' = "so_questions" /\ ret' = ret /\ now' = now
              [] resp \in {"reqexc", "notfound"} -> StackOverflow_next_user(mem)
              [] resp = "badshape" -> Raise /\ mem' = mem /\ now' = now
    /\ UNCHANGED <<orchVars, cwd, writes, stub>>

\* questions / answers / badges: data.get('items', []) if data else []
StackOverflow_collection(at, site, field, then) ==
    /\ Running("stackoverflow") /\ cpc = at
    /\ \E resp \in Responses, items \in StackOverflowItems :
         /\ Log(site, "collection", resp, IF resp = "ok" THEN items ELSE <<>>)
         /\ CASE resp = "ok" ->
                   /\ mem' = [mem EXCEPT !.cur = (field :> items) @@ @]
                   /\ cpc' = then /\ ret' = ret
              [] resp = "reqexc" ->
                   /\ mem' = [mem EXCEPT !.cur = (field :> <<>>) @@ @]
                   /\ cpc' = then /\ ret' = ret
              [] resp = "badshape" -> Raise /\ mem' = mem
    /\ UNCHANGED <<orchVars, cwd, now, writes, stub>>

StackOverflow_get_questions ==
    StackOverflow_collection("so_questions", "stackoverflow.questions",
                             "questions", "so_answers")

StackOverflow_get_answers ==
    StackOverflow_collection("so_answers", "stackoverflow.answers",
                             "answers", "so_badges")

StackOverflow_get_badges ==
    StackOverflow_collection("so_badges", "stackoverflow.badges",
                             "badges", "so_append")

\* _extract_user_data returns its dict; all_users_data.append(data)
StackOverflow_append ==
    /\ Running("stackoverflow") /\ cpc = "so_append"
    /\ StackOverflow_next_user(
          [mem EXCEPT !.all_data =
              Append(@, ("extraction_date" :> IsoFormat(now)) @@ mem.cur),
           !.cur = <<>>])
    /\ UNCHANGED <<orchVars, cwd, reqlog, writes, stub>>

\* export_data = {...}; filename = self._save_json(export_data, username)
StackOverflow_save ==
    /\ Running("stackoverflow") /\ cpc = "so_save"
    /\ SaveAndReturn([users |-> mem.all_data, total_users |-> Len(mem.all_data),
                      extraction_date |-> IsoFormat(now)], mem.username)
    /\ UNCHANGED <<orchVars, now, mem, reqlog, stub>>

StackOverflowNext ==
    \/ StackOverflow_run
    \/ StackOverflow_search_users
    \/ StackOverflow_select
    \/ StackOverflow_get_profile
    \/ StackOverflow_get_questions
    \/ StackOverflow_get_answers
    \/ StackOverflow_get_badges
    \/ StackOverflow_append
    \/ StackOverflow_save

-----------------------------------------------------------------------------
(* YouTubeExtractor *)

YouTubeChannelLists == {<<>>, <<"ch1">>, <<"ch1", "ch2">>}

YouTubeVideos == {<<"v1">>}

\* a run() that goes to the search whether or not there is an API key
YouTube_run_unchecked ==
    /\ Running("youtube") /\ cpc = "entry"
    /\ \E imported \in BOOLEAN :
         IF imported THEN cpc' = "yt_search" /\ ret' = ret
                     ELSE Return(RetNone)
    /\ UNCHANGED <<orchVars, cwd, now, mem, reqlog, writes, stub>>

\* run(): the API key is checked before anything else and its absence
\* reported with ui.error, then the import
YouTube_run ==
    /\ Running("youtube") /\ cpc = "entry"
    /\ IF ~mem.api_key
       THEN /\ mem' = [mem EXCEPT !.error = "YouTube API key required"]
            /\ Return(RetNone)
       ELSE /\ mem' = mem
            /\ \E imported \in BOOLEAN :
                 IF imported THEN cpc' = "yt_search" /\ ret' = ret
                             ELSE Return(RetNone)
    /\ UNCHANGED <<orchVars, cwd, now, reqlog, writes, stub>>

\* _search_channels, first request: the search by title
YouTube_search_channels ==
    /\ Running("youtube") /\ cpc = "yt_search"
    /\ \E resp \in Responses, items \in YouTubeChannelLists :
         /\ Log("youtube.search", "identity", resp, IF resp = "ok" THEN items ELSE <<>>)
         /\ CASE resp = "ok" /\ items # <<>> ->
                   /\ mem' = [mem EXCEPT !.items = items]
                   /\ cpc' = "yt_statistics" /\ ret' = ret
              [] resp = "ok" /\ items = <<>> -> Return(RetNone) /\ mem' = mem
              [] resp = "reqexc" -> Return(RetNone) /\ mem' = mem
              [] resp = "badshape" -> Raise /\ mem' = mem
    /\ UNCHANGED <<orchVars, cwd, now, writes, stub>>

\* _search_channels, second request: snippet and statistics of the channels
\* found (the API may know fewer of them); "if not channels: return None" in
\* run().  A non-numeric count raises ValueError in _select_channels, before
\* the prompt and outside its try
YouTube_search_statistics ==
    /\ Running("youtube") /\ cpc = "yt_statistics"
    /\ \E resp \in Responses, k \in 0..Len(mem.items) :
         LET channels == SubSeq(mem.items, 1, k) IN
         /\ Log("youtube.channels", "identity", resp,
                IF resp = "ok" THEN channels ELSE <<>>)
         /\ CASE resp = "ok" /\ channels # <<>> ->
                   /\ mem' = [mem EXCEPT !.channels = channels]
                   /\ cpc' = "yt_select" /\ ret' = ret
              [] resp = "ok" /\ channels = <<>> -> Return(RetNone) /\ mem' = mem
              [] resp = "reqexc" -> Return(RetNone) /\ mem' = mem
              [] resp = "badshape" -> Raise /\ mem' = mem
    /\ UNCHANGED <<orchVars, cwd, now, writes, stub>>

\* selected_ids = self._select_channels(channels); if not selected_ids: ...
YouTube_select_typed(typed) ==
    /\ Running("youtube") /\ cpc = "yt_select"
    /\   LET r == YouTube_select_channels(mem.channels, typed) IN
         /\ stub' = [step |-> "done", platform |-> "youtube",
                    cands |-> mem.channels, typed |-> typed] @@ r
         /\ IF r.raised THEN Raise /\ mem' = mem
            ELSE IF r.ids = <<>> THEN Return(RetNone) /\ mem' = mem
            ELSE /\ mem' = [mem EXCEPT !.selected_ids = r.ids, !.pos = 1]
                 /\ cpc' = "yt_channel_info" /\ ret' = ret
    /\ UNCHANGED <<orchVars, cwd, now, reqlog, writes>>

YouTube_select == \E typed \in MainTyped : YouTube_select_typed(typed)

\* the end of one turn of the loop over selected_ids
YouTube_next_channel(m) ==
    IF m.pos < Len(m.selected_ids)
    THEN /\ mem' = [m EXCEPT !.pos = @ + 1]
         /\ now' = now + 2
         /\ cpc' = "yt_channel_info" /\ ret' = ret
    ELSE /\ mem' = m
         /\ now' = now
         /\ IF m.all_data = <<>> THEN Return(RetNone)
            ELSE cpc' = "yt_save" /\ ret' = ret

\* _extract_channel_data: channel_info = self._get_channel_info(...)
YouTube_get_channel_info ==
    /\ Running("youtube") /\ cpc = "yt_channel_info"
    /\ LET cid == mem.selected_ids[mem.pos] IN
       \E resp \in Responses \cup {"notfound"} :
         /\ Log("youtube.channel", "profile", resp, cid)
         /\ CASE resp = "ok" ->
                   /\ mem' = [mem EXCEPT !.cur = [channel_info |-> [id |-> cid]]]
                   /\ cpc' = "yt_videos" /\ ret' = ret /\ now' = now
              [] resp \in {"reqexc", "notfound"} -> YouTube_next_channel(mem)
              [] resp = "badshape" -> Raise /\ mem' = mem /\ now' = now
    /\ UNCHANGED <<orchVars, cwd, writes, stub>>

\* videos = self._get_videos(...); the dict is returned and appended
YouTube_get_videos ==
    /\ Running("youtube") /\ cpc = "yt_videos"
    /\ \E resp \in Responses, videos \in YouTubeVideos :
         LET entry(v) == [channel_info |-> mem.cur.channel_info, videos |-> v,
                          extraction_date |-> IsoFormat(now)] IN
         /\ Log("youtube.videos", "collection", resp, IF resp = "ok" THEN videos ELSE <<>>)
         /\ CASE resp = "ok" ->
                   YouTube_next_channel(
                      [mem EXCEPT !.all_data = Append(@, entry(videos)), !.cur = <<>>])
              [] resp = "reqexc" ->
                   YouTube_next_channel(
                      [mem EXCEPT !.all_data = Append(@, entry(<<>>)), !.cur = <<>>])
              [] resp = "badshape" -> Raise /\ mem' = mem /\ now' = now
    /\ UNCHANGED <<orchVars, cwd, writes, stub>>

\* export_data = {...}; filename = self._save_json(export_data, username)
YouTube_save ==
    /\ Running("youtube") /\ cpc = "yt_save"
    /\ SaveAndReturn([channels |-> mem.all_data, total_channels |-> Len(mem.all_data),
                      extraction_date |-> IsoFormat(now)], mem.username)
    /\ UNCHANGED <<orchVars, now, mem, reqlog, stub>>

YouTubeNext ==
    \/ YouTube_run
    \/ YouTube_search_channels
    \/ YouTube_search_statistics
    \/ YouTube_select
    \/ YouTube_get_channel_info
    \/ YouTube_get_videos
    \/ YouTube_save

-----------------------------------------------------------------------------
(* Paginated sources.  The n-th item a source hands out is the number n, so *)
(* a collected list shows which items it holds and in which order.          *)

\* the next n items of a source that has handed out k items so far
Items(k, n) == [i \in 1..n |-> k + i]

\* sizes of the pages a server may answer with
PageSizes == {0, 90, 250}

\* continuation cursors a Bluesky server may return ("" is no cursor)
Cursors == {"", "c1"}

\* Link headers a Mastodon server may send ("" is no header)
LinkHeaders == {"", "<u2>; rel=\"next\""}

-----------------------------------------------------------------------------
(* BlueskyExtractor *)

\* _get_posts: max_posts = 200
max_posts == 200

\* a list of variants that does not look at the handle
AlwaysThreeHandles(username) ==
    LET handle == StrStrip(StrRemove(username, "@")) IN
    <<handle, handle \o ".bsky.social", handle \o ".com">>

\* _resolve_handle: handles_to_try
HandlesToTry(username) ==
    LET handle == StrStrip(StrRemove(username, "@")) IN
    IF Contains(handle, ".") THEN <<handle>>
    ELSE <<handle, handle \o ".bsky.social", handle \o ".com">>

\* run(): import requests, header
Bluesky_run ==
    /\ Running("bluesky") /\ cpc = "entry"
    /\ \E imported \in BOOLEAN :
         IF imported
         THEN /\ cpc' = "bs_resolve" /\ ret' = ret
              /\ mem' = [mem EXCEPT !.handles = HandlesToTry(mem.username), !.try = 1]
         ELSE Return(RetNone) /\ mem' = mem
    /\ UNCHANGED <<orchVars, cwd, now, reqlog, writes, stub>>

\* _resolve_handle: one turn of "for h in handles_to_try"; "nodid" is an
\* answer without a did.  After the last handle: return None, and run()
\* returns None
Bluesky_resolve_handle ==
    /\ Running("bluesky") /\ cpc = "bs_resolve"
    /\ LET h == mem.handles[mem.try] IN
       \E resp \in Responses \cup {"nodid"} :
         /\ Log("bluesky.resolveHandle", "identity", resp, h)
         /\ CASE resp = "ok" ->
                   /\ mem' = [mem EXCEPT !.did = "did:" \o h]
                   /\ cpc' = "bs_profile" /\ ret' = ret
              [] resp \in {"reqexc", "nodid"} ->
                   IF mem.try < Len(mem.handles)
                   THEN mem' = [mem EXCEPT !.try = @ + 1] /\ UNCHANGED <<cpc, ret>>
                   ELSE Return(RetNone) /\ mem' = mem
              [] resp = "badshape" -> Raise /\ mem' = mem
    /\ UNCHANGED <<orchVars, cwd, now, writes, stub>>

\* profile = self._get_profile(requests, did); if not profile: return None
Bluesky_get_profile ==
    /\ Running("bluesky") /\ cpc = "bs_profile"
    /\ \E resp \in Responses :
         /\ Log("bluesky.getProfile", "profile", resp, mem.did)
         /\ CASE resp = "ok" ->
                   /\ mem' = [mem EXCEPT !.profile = [handle |-> mem.did]]
                   /\ cpc' = "bs_posts" /\ ret' = ret
              [] resp = "reqexc" -> Return(RetNone) /\ mem' = mem
              [] resp = "badshape" -> Raise /\ mem' = mem
    /\ UNCHANGED <<orchVars, cwd, now, writes, stub>>

KeepAll(all, cap) == all

\* all_posts = all_posts[:max_posts]
Truncate(all, cap) == Take(all, cap)

\* a loop without "if not feed: break"
Bluesky_posts_page_no_break(resp, n, cursor) ==
    /\ Running("bluesky") /\ cpc = "bs_posts"
    /\ LET feed == Items(Len(mem.all_posts), n)
           all == mem.all_posts \o feed
           leave(list) == /\ mem' = [mem EXCEPT !.all_posts = list,
                                                !.posts = Truncate(list, max_posts)]
                          /\ cpc' = "bs_save" /\ ret' = ret /\ now' = now IN
       /\ Log("bluesky.getAuthorFeed", "collection", resp,
              [sent |-> mem.cursor, n |-> IF resp = "ok" THEN n ELSE 0,
               cursor |-> IF resp = "ok" THEN cursor ELSE ""])
       /\ CASE resp = "ok" /\ cursor = "" -> leave(all)
            [] resp = "ok" /\ cursor # "" ->
                 IF Len(all) < max_posts
                 THEN /\ mem' = [mem EXCEPT !.all_posts = all, !.cursor = cursor]
                      /\ now' = now + 1
                      /\ UNCHANGED <<cpc, ret>>
                 ELSE /\ mem' = [mem EXCEPT !.all_posts = all, !.cursor = cursor,
                                            !.posts = Truncate(all, max_posts)]
                      /\ now' = now + 1
                      /\ cpc' = "bs_save" /\ ret' = ret
            [] resp = "reqexc" -> leave(mem.all_posts)
            [] resp = "badshape" -> Raise /\ mem' = mem /\ now' = now
    /\ UNCHANGED <<orchVars, cwd, writes, stub>>

\* _get_posts: one turn of "while len(all_posts) < max_posts", for the answer
\* (resp, a page of n items, cursor) of the server.  The loop is left on an
\* empty page, on a missing cursor, on a request exception or when the cap is
\* reached; then the list is cut to max_posts and returned
Bluesky_posts_page(resp, n, cursor) ==
    /\ Running("bluesky") /\ cpc = "bs_posts"
    /\ LET feed == Items(Len(mem.all_posts), n)
           all == mem.all_posts \o feed
           leave(list) == /\ mem' = [mem EXCEPT !.all_posts = list,
                                                !.posts = Truncate(list, max_posts)]
                          /\ cpc' = "bs_save" /\ ret' = ret /\ now' = now IN
       /\ Log("bluesky.getAuthorFeed", "collection", resp,
              [sent |-> mem.cursor, n |-> IF resp = "ok" THEN n ELSE 0,
               cursor |-> IF resp = "ok" THEN cursor ELSE ""])
       /\ CASE resp = "ok" /\ feed = <<>> -> leave(mem.all_posts)
            [] resp = "ok" /\ feed # <<>> /\ cursor = "" -> leave(all)
            [] resp = "ok" /\ feed # <<>> /\ cursor # "" ->
                 IF Len(all) < max_posts
                 THEN /\ mem' = [mem EXCEPT !.all_posts = all, !.cursor = cursor]
                      /\ now' = now + 1
                      /\ UNCHANGED <<cpc, ret>>
                 ELSE /\ mem' = [mem EXCEPT !.all_posts = all, !.cursor = cursor,
                                            !.posts = Truncate(all, max_posts)]
                      /\ now' = now + 1
                      /\ cpc' = "bs_save" /\ ret' = ret
            [] resp = "reqexc" -> leave(mem.all_posts)
            [] resp = "badshape" -> Raise /\ mem' = mem /\ now' = now
    /\ UNCHANGED <<orchVars, cwd, writes, stub>>

Bluesky_get_posts ==
    \E resp \in Responses, n \in PageSizes, cursor \in Cursors :
        Bluesky_posts_page(resp, n, cursor)

\* data = {...}; filename = self._save_json(data, username); return filename
Bluesky_save ==
    /\ Running("bluesky") /\ cpc = "bs_save"
    /\ SaveAndReturn([profile |-> mem.profile, posts |-> mem.posts,
                      extraction_date |-> IsoFormat(now)], mem.username)
    /\ UNCHANGED <<orchVars, now, mem, reqlog, stub>>

BlueskyNext ==
    \/ Bluesky_run
    \/ Bluesky_resolve_handle
    \/ Bluesky_get_profile
    \/ Bluesky_get_posts
    \/ Bluesky_save

-----------------------------------------------------------------------------
(* MastodonExtractor *)

\* _get_statuses: max_toots = 200
max_toots == 200

\* _parse_link_header: the url of the first link that has exactly two
\* ;-separated parts and whose second part contains rel="<rel>"; "" stands
\* for None (both end the pagination)
RECURSIVE ParseLinks(_, _)
ParseLinks(links, rel) ==
    IF links = <<>> THEN ""
    ELSE LET parts == StrSplit(Head(links), ";") IN
         IF /\ Len(parts) = 2
            /\ Contains(StrStrip(parts[2]), "rel=\"" \o rel \o "\"")
         THEN Inner(StrStrip(parts[1]))
         ELSE ParseLinks(Tail(links), rel)

\* the url of the first link of the header, whatever its rel
ParseLinkFirst(link_header, rel) ==
    IF link_header = "" THEN ""
    ELSE Inner(StrStrip(Head(StrSplit(Head(StrSplit(link_header, ",")), ";"))))

ParseLinkHeader(link_header, rel) ==
    IF link_header = "" THEN "" ELSE ParseLinks(StrSplit(link_header, ","), rel)

\* run(): imports, header
Mastodon_run ==
    /\ Running("mastodon") /\ cpc = "entry"
    /\ \E imported \in BOOLEAN :
         IF imported THEN cpc' = "ms_account" /\ ret' = ret
                     ELSE Return(RetNone)
    /\ UNCHANGED <<orchVars, cwd, now, mem, reqlog, writes, stub>>

\* account = self._search_account(...); if not account: return None
Mastodon_search_account ==
    /\ Running("mastodon") /\ cpc = "ms_account"
    /\ \E resp \in Responses :
         /\ Log("mastodon.lookup", "profile", resp, mem.username)
         /\ CASE resp = "ok" ->
                   /\ mem' = [mem EXCEPT !.account = [id |-> "42", username |-> mem.username],
                                         !.url = "accounts/42/statuses"]
                   /\ cpc' = "ms_statuses" /\ ret' = ret
              [] resp = "reqexc" -> Return(RetNone) /\ mem' = mem
              [] resp = "badshape" -> Raise /\ mem' = mem
    /\ UNCHANGED <<orchVars, cwd, now, writes, stub>>

\* _get_statuses: one turn of "while len(all_statuses) < max_toots", for the
\* answer (resp, a page of n toots, Link header) of the server
Mastodon_statuses_page(resp, n, link_header) ==
    /\ Running("mastodon") /\ cpc = "ms_statuses"
    /\ LET statuses == Items(Len(mem.all_statuses), n)
           all == mem.all_statuses \o statuses
           next_url == ParseLinkHeader(link_header, "next")
           leave(list) == /\ mem' = [mem EXCEPT !.all_statuses = list,
                                                !.statuses = Truncate(list, max_toots)]
                          /\ cpc' = "ms_save" /\ ret' = ret /\ now' = now IN
       /\ Log("mastodon.statuses", "collection", resp,
              [sent |-> mem.url, n |-> IF resp = "ok" THEN n ELSE 0,
               link |-> IF resp = "ok" THEN link_header ELSE ""])
       /\ CASE resp = "ok" /\ statuses = <<>> -> leave(mem.all_statuses)
            [] resp = "ok" /\ statuses # <<>> /\ next_url = "" -> leave(all)
            [] resp = "ok" /\ statuses # <<>> /\ next_url # "" ->
                 IF Len(all) < max_toots
                 THEN /\ mem' = [mem EXCEPT !.all_statuses = all, !.url = next_url]
                      /\ now' = now + 1
                      /\ UNCHANGED <<cpc, ret>>
                 ELSE /\ mem' = [mem EXCEPT !.all_statuses = all, !.url = next_url,
                                            !.statuses = Truncate(all, max_toots)]
                      /\ now' = now + 1
                      /\ cpc' = "ms_save" /\ ret' = ret
            [] resp = "reqexc" -> leave(mem.all_statuses)
            [] resp = "badshape" -> Raise /\ mem' = mem /\ now' = now
    /\ UNCHANGED <<orchVars, cwd, writes, stub>>

Mastodon_get_statuses ==
    \E resp \in Responses, n \in PageSizes, link_header \in LinkHeaders :
        Mastodon_statuses_page(resp, n, link_header)

\* data = {...}; filename = self._save_json(data, username); return filename
Mastodon_save ==
    /\ Running("mastodon") /\ cpc = "ms_save"
    /\ SaveAndReturn([account |-> mem.account, statuses |-> mem.statuses,
                      extraction_date |-> IsoFormat(now)], mem.username)
    /\ UNCHANGED <<orchVars, now, mem, reqlog, stub>>

MastodonNext ==
    \/ Mastodon_run
    \/ Mastodon_search_account
    \/ Mastodon_get_statuses
    \/ Mastodon_save

-----------------------------------------------------------------------------
(* RedditExtractor *)

RedditPosts == {<<>>, <<"p1", "p2">>}

RedditComments == {<<>>, <<"c1">>}

\* run(): import requests, header
Reddit_run ==
    /\ Running("reddit") /\ cpc = "entry"
    /\ \E imported \in BOOLEAN :
         IF imported THEN cpc' = "rd_user_info" /\ ret' = ret
                     ELSE Return(RetNone)
    /\ UNCHANGED <<orchVars, cwd, now, mem, reqlog, writes, stub>>

\* user_info = self._get_user_info(...); "nodata" is an answer without a
\* data field: "User not found", None
Reddit_get_user_info ==
    /\ Running("reddit") /\ cpc = "rd_user_info"
    /\ \E resp \in Responses \cup {"nodata"} :
         /\ Log("reddit.about", "profile", resp, mem.username)
         /\ CASE resp = "ok" ->
                   /\ mem' = [mem EXCEPT !.user_info = [username |-> mem.username]]
                   /\ cpc' = "rd_posts" /\ ret' = ret
              [] resp \in {"reqexc", "nodata"} -> Return(RetNone) /\ mem' = mem
              [] resp = "badshape" -> Raise /\ mem' = mem
    /\ UNCHANGED <<orchVars, cwd, now, writes, stub>>

\* posts = self._get_posts(...)
Reddit_get_posts ==
    /\ Running("reddit") /\ cpc = "rd_posts"
    /\ \E resp \in Responses, posts \in RedditPosts :
         /\ Log("reddit.submitted", "collection", resp, IF resp = "ok" THEN posts ELSE <<>>)
         /\ CASE resp = "ok" ->
                   /\ mem' = [mem EXCEPT !.posts = posts]
                   /\ cpc' = "rd_comments" /\ ret' = ret
              [] resp = "reqexc" ->
                   /\ mem' = [mem EXCEPT !.posts = <<>>]
                   /\ cpc' = "rd_comments" /\ ret' = ret
              [] resp = "badshape" -> Raise /\ mem' = mem
    /\ UNCHANGED <<orchVars, cwd, now, writes, stub>>

\* comments = self._get_comments(...): time.sleep(1), then the request
Reddit_get_comments ==
    /\ Running("reddit") /\ cpc = "rd_comments"
    /\ now' = now + 2
    /\ \E resp \in Responses, comments \in RedditComments :
         /\ Log("reddit.comments", "collection", resp,
                IF resp = "ok" THEN comments ELSE <<>>)
         /\ CASE resp = "ok" ->
                   /\ mem' = [mem EXCEPT !.comments = comments]
                   /\ cpc' = "rd_save" /\ ret' = ret
              [] resp = "reqexc" ->
                   /\ mem' = [mem EXCEPT !.comments = <<>>]
                   /\ cpc' = "rd_save" /\ ret' = ret
              [] resp = "badshape" -> Raise /\ mem' = mem
    /\ UNCHANGED <<orchVars, cwd, writes, stub>>

\* data = {...}; filename = self._save_json(data, username); return filename
Reddit_save ==
    /\ Running("reddit") /\ cpc = "rd_save"
    /\ SaveAndReturn([user_info |-> mem.user_info, posts |-> mem.posts,
                      comments |-> mem.comments, extraction_date |-> IsoFormat(now)],
                     mem.username)
    /\ UNCHANGED <<orchVars, now, mem, reqlog, stub>>

RedditNext ==
    \/ Reddit_run
    \/ Reddit_get_user_info
    \/ Reddit_get_posts
    \/ Reddit_get_comments
    \/ Reddit_save

-----------------------------------------------------------------------------
(* MediumExtractor *)

MediumFeeds == {<<>>, <<"a1", "a2">>}

\* run(): imports, header
Medium_run ==
    /\ Running("medium") /\ cpc = "entry"
    /\ \E imported \in BOOLEAN :
         IF imported THEN cpc' = "md_articles" /\ ret' = ret
                     ELSE Return(RetNone)
    /\ UNCHANGED <<orchVars, cwd, now, mem, reqlog, writes, stub>>

\* a run that goes on to save whatever list the feed gave
Medium_fetch_articles_keep_empty ==
    /\ Running("medium") /\ cpc = "md_articles"
    /\ \E resp \in Responses \cup {"parseerror"}, articles \in MediumFeeds :
         /\ Log("medium.feed", "profile", resp, IF resp = "ok" THEN articles ELSE <<>>)
         /\ CASE resp = "ok" ->
                   /\ mem' = [mem EXCEPT !.articles = articles]
                   /\ cpc' = "md_save" /\ ret' = ret
              [] resp \in {"reqexc", "parseerror"} -> Return(RetNone) /\ mem' = mem
              [] resp = "badshape" -> Raise /\ mem' = mem
    /\ UNCHANGED <<orchVars, cwd, now, writes, stub>>

\* articles = self._fetch_articles(...); if not articles: return None.
\* "parseerror" is a body that is not XML (ET.ParseError, caught);
\* "badshape" is well-formed XML with an item whose title has no text, on
\* which len(title) raises TypeError
Medium_fetch_articles ==
    /\ Running("medium") /\ cpc = "md_articles"
    /\ \E resp \in Responses \cup {"parseerror"}, articles \in MediumFeeds :
         /\ Log("medium.feed", "profile", resp, IF resp = "ok" THEN articles ELSE <<>>)
         /\ CASE resp = "ok" /\ articles # <<>> ->
                   /\ mem' = [mem EXCEPT !.articles = articles]
                   /\ cpc' = "md_save" /\ ret' = ret
              [] resp = "ok" /\ articles = <<>> -> Return(RetNone) /\ mem' = mem
              [] resp \in {"reqexc", "parseerror"} -> Return(RetNone) /\ mem' = mem
              [] resp = "badshape" -> Raise /\ mem' = mem
    /\ UNCHANGED <<orchVars, cwd, now, writes, stub>>

\* a document that also carries the author it was asked for
Medium_save_with_author ==
    /\ Running("medium") /\ cpc = "md_save"
    /\ SaveAndReturn([author |-> [username |-> mem.username],
                      articles |-> mem.articles, extraction_date |-> IsoFormat(now)],
                     mem.username)
    /\ UNCHANGED <<orchVars, now, mem, reqlog, stub>>

\* data = {...}; filename = self._save_json(data, username); return filename
Medium_save ==
    /\ Running("medium") /\ cpc = "md_save"
    /\ SaveAndReturn([articles |-> mem.articles, extraction_date |-> IsoFormat(now)],
                     mem.username)
    /\ UNCHANGED <<orchVars, now, mem, reqlog, stub>>

MediumNext ==
    \/ Medium_run
    \/ Medium_fetch_articles
    \/ Medium_save

-----------------------------------------------------------------------------
(* TelegramExtractor *)

\* _extract_messages: max_messages = 800
max_messages == 800

\* numbers of messages the target may hold
StreamSizes == {0, 3, 950}

\* self.client.iter_messages(username, limit=max_messages): the library
\* yields the messages of the target, newest first, and stops after limit
IterMessages(available, limit) == Items(0, Min(available, limit))

\* run(): the credentials are checked first and their absence reported with
\* ui.error, then telethon is imported
Telegram_run ==
    /\ Running("telegram") /\ cpc = "entry"
    /\ IF ~mem.api_id \/ ~mem.api_hash
       THEN /\ mem' = [mem EXCEPT !.error = "Telegram API credentials required"]
            /\ Return(RetNone)
       ELSE /\ mem' = mem
            /\ \E imported \in BOOLEAN :
                 IF imported THEN cpc' = "tg_connect" /\ ret' = ret
                             ELSE Return(RetNone)
    /\ UNCHANGED <<orchVars, cwd, now, reqlog, writes, stub>>

\* _run_async: if not await self._connect(...): return None.  _connect
\* catches every exception; a start() that fails after the transport was
\* opened may leave the session connected
Telegram_connect ==
    /\ Running("telegram") /\ cpc = "tg_connect"
    /\ \E resp \in {"ok", "exc"}, left_open \in BOOLEAN :
         /\ Log("telegram.connect", "identity", resp, <<>>)
         /\ IF resp = "ok"
            THEN /\ mem' = [mem EXCEPT !.connected = TRUE]
                 /\ cpc' = "tg_entity" /\ ret' = ret
            ELSE /\ mem' = [mem EXCEPT !.connected = left_open]
                 /\ Return(RetNone)
    /\ UNCHANGED <<orchVars, cwd, now, writes, stub>>

\* entity_info = await self._get_entity_info(...); on None the client is
\* disconnected and run returns None.  _get_entity_info catches every
\* exception (UsernameNotOccupiedError first)
Telegram_get_entity_info ==
    /\ Running("telegram") /\ cpc = "tg_entity"
    /\ \E resp \in {"ok", "notoccupied", "exc"} :
         /\ Log("telegram.get_entity", "profile", resp, mem.username)
         /\ IF resp = "ok"
            THEN /\ mem' = [mem EXCEPT !.entity_info =
                               [username |-> StrStrip(StrRemove(mem.username, "@"))]]
                 /\ cpc' = "tg_messages" /\ ret' = ret
            ELSE /\ mem' = [mem EXCEPT !.connected = FALSE]
                 /\ Return(RetNone)
    /\ UNCHANGED <<orchVars, cwd, now, writes, stub>>

\* messages = await self._extract_messages(username): the stream is read to
\* its end or to the limit; an exception raised by the stream after it has
\* yielded some messages (or none) leaves the loop, and "return []" gives up
\* the messages appended so far
Telegram_extract_messages ==
    /\ Running("telegram") /\ cpc = "tg_messages"
    /\ \E resp \in {"ok", "exc"}, available \in StreamSizes :
       \E yielded \in IF resp = "ok"
                      THEN {Len(IterMessages(available, max_messages))}
                      ELSE {k \in StreamSizes : k <= Min(available, max_messages)} :
         /\ Log("telegram.iter_messages", "collection", resp,
                [limit |-> max_messages, available |-> available,
                 yielded |-> yielded])
         /\ mem' = [mem EXCEPT !.messages =
                       IF resp = "ok" THEN IterMessages(available, max_messages)
                       ELSE <<>>]
         /\ cpc' = "tg_save" /\ ret' = ret
    /\ UNCHANGED <<orchVars, cwd, now, writes, stub>>

\* data = {...}; filename = self._save_json(data, username);
\* await self.client.disconnect(); return filename.  An OSError of the save
\* leaves _run_async before the disconnect
Telegram_save ==
    /\ Running("telegram") /\ cpc = "tg_save"
    /\ SaveAndReturn([entity_info |-> mem.entity_info, messages |-> mem.messages,
                      extraction_date |-> IsoFormat(now)], mem.username)
    /\ mem' = [mem EXCEPT !.connected = (cpc' = "raised")]
    /\ UNCHANGED <<orchVars, now, reqlog, stub>>

TelegramNext ==
    \/ Telegram_run
    \/ Telegram_connect
    \/ Telegram_get_entity_info
    \/ Telegram_extract_messages
    \/ Telegram_save

-----------------------------------------------------------------------------
(* ExtractorOrchestrator *)

ResultsDir == "results"

\* a destination that is the working directory itself
DestInPlace(filename) == filename

\* dest = self.results_dir / filename
DestPath(filename) == ResultsDir \o "/" \o filename

\* a stored file recorded without the success mark
SuccessUnmarked(username, dest) ==
    [username |-> username, success |-> FALSE, filename |-> dest]

Success(username, dest) ==
    [username |-> username, success |-> TRUE, filename |-> dest]

Failure(username) == [username |-> username, success |-> FALSE]

\* no prompt was shown, no mock server is in place
IdleStub == [step |-> "idle"]

\* no extractor is running
IdleMem == [platform |-> ""]

\* _create_extractor: the extractor object and the locals of its run()
CreateExtractor(platform_name, username) ==
    LET base == [platform |-> platform_name, username |-> username] IN
    CASE platform_name = "github" ->
           base @@ [user_info |-> <<>>, repos |-> <<>>, events |-> <<>>]
      [] platform_name = "stackoverflow" ->
           base @@ [users |-> <<>>, selected_ids |-> <<>>, pos |-> 0,
                    all_data |-> <<>>, cur |-> <<>>]
      [] platform_name = "youtube" ->
           base @@ [api_key |-> config.youtube_key, error |-> "", items |-> <<>>,
                    channels |-> <<>>, selected_ids |-> <<>>, pos |-> 0,
                    all_data |-> <<>>, cur |-> <<>>]
      [] platform_name = "bluesky" ->
           base @@ [handles |-> <<>>, try |-> 0, did |-> "", profile |-> <<>>,
                    all_posts |-> <<>>, cursor |-> "", posts |-> <<>>]
      [] platform_name = "mastodon" ->
           base @@ [account |-> <<>>, url |-> "", all_statuses |-> <<>>,
                    statuses |-> <<>>]
      [] platform_name = "reddit" ->
           base @@ [user_info |-> <<>>, posts |-> <<>>, comments |-> <<>>]
      [] platform_name = "medium" ->
           base @@ [articles |-> <<>>]
      [] platform_name = "telegram" ->
           base @@ [api_id |-> config.telegram_id, api_hash |-> config.telegram_hash,
                    error |-> "", connected |-> FALSE, entity_info |-> <<>>,
                    messages |-> <<>>]

\* loop head of _run_extractions: header, extractor = self._create_extractor();
\* a constructor that raises makes _create_extractor return None, and the
\* failure is recorded at once
StartPlatform ==
    /\ opc = "loop" /\ idx <= Len(platforms)
    /\ LET pid == platforms[idx]
           platform_name == PlatformName(pid)
           username == usernames[pid] IN
       \E created \in BOOLEAN :
          IF created
          THEN /\ opc' = "run"
               /\ cpc' = "entry"
               /\ mem' = CreateExtractor(platform_name, username)
               /\ results' = results
          ELSE /\ opc' = "after"
               /\ cpc' = "idle"
               /\ mem' = IdleMem
               /\ results' = Put(results, platform_name, Failure(username))
    /\ ret' = RetNone /\ reqlog' = <<>> /\ writes' = <<>>
    /\ stub' = IdleStub
    /\ ran' = Append(ran, PlatformName(platforms[idx]))
    /\ UNCHANGED <<platforms, usernames, config, idx, cwd, resdir, now, slept,
                   start_time, summary>>

\* filename = extractor.run(username) has returned or raised: the file is
\* moved into the results directory and the outcome recorded.  shutil.move
\* raises when the source is missing or the destination cannot be written;
\* the file then stays where it is.
RecordOutcome ==
    /\ opc = "run" /\ cpc \in {"returned", "raised"}
    /\ LET platform_name == PlatformName(platforms[idx])
           username == usernames[platforms[idx]]
           dest == DestPath(ret) IN
       \/ /\ cpc = "returned" /\ ret # RetNone
          /\ \E moved \in BOOLEAN :
               IF moved /\ ret \in DOMAIN cwd
               THEN /\ resdir' = Put(resdir, dest, cwd[ret])
                    /\ cwd' = Without(cwd, ret)
                    /\ results' = Put(results, platform_name, Success(username, dest))
               ELSE /\ results' = Put(results, platform_name, Failure(username))
                    /\ UNCHANGED <<cwd, resdir>>
       \/ /\ cpc = "returned" /\ ret = RetNone
          /\ results' = Put(results, platform_name, Failure(username))
          /\ UNCHANGED <<cwd, resdir>>
       \/ /\ cpc = "raised"
          /\ results' = Put(results, platform_name, Failure(username))
          /\ UNCHANGED <<cwd, resdir>>
    /\ opc' = "after"
    /\ cpc' = IF cpc = "returned" THEN "recorded" ELSE "caught"
    /\ UNCHANGED <<platforms, usernames, config, idx, now, mem, ret, reqlog,
                   writes, stub, ran, slept, start_time, summary>>

\* time.sleep(1) after the outcome of platform i was recorded
Slept(i) ==
    [after |-> i, success |-> results[PlatformName(platforms[i])].success]

\* a loop that sleeps after the last platform too
FinishWithCooldown ==
    /\ opc = "after" /\ idx = Len(platforms)
    /\ now' = now + 2
    /\ slept' = Append(slept, Slept(idx))
    /\ opc' = "done"
    /\ UNCHANGED <<platforms, usernames, config, idx, results, cwd, resdir,
                   clientVars, stub, ran, start_time, summary>>

\* a loop that goes on to the next platform only after a success
CooldownAfterSuccess ==
    /\ opc = "after" /\ idx < Len(platforms)
    /\ results[PlatformName(platforms[idx])].success
    /\ now' = now + 2
    /\ slept' = Append(slept, Slept(idx))
    /\ idx' = idx + 1
    /\ opc' = "loop"
    /\ UNCHANGED <<platforms, usernames, config, results, cwd, resdir,
                   clientVars, stub, ran, start_time, summary>>

\* a loop that goes on to the next platform without sleeping
CooldownWithoutSleep ==
    /\ opc = "after" /\ idx < Len(platforms)
    /\ slept' = Append(slept, Slept(idx))
    /\ idx' = idx + 1
    /\ opc' = "loop"
    /\ UNCHANGED <<platforms, usernames, config, results, cwd, resdir, now,
                   clientVars, stub, ran, start_time, summary>>

\* if idx < total: time.sleep(1), then the next platform
Cooldown ==
    /\ opc = "after" /\ idx < Len(platforms)
    /\ now' = now + 2
    /\ slept' = Append(slept, Slept(idx))
    /\ idx' = idx + 1
    /\ opc' = "loop"
    /\ UNCHANGED <<platforms, usernames, config, results, cwd, resdir,
                   clientVars, stub, ran, start_time, summary>>

\* the loop is over after the last platform
Finish ==
    /\ opc = "after" /\ idx = Len(platforms)
    /\ opc' = "done"
    /\ UNCHANGED <<platforms, usernames, config, idx, results, cwd, resdir, now,
                   clientVars, stub, ran, slept, start_time, summary>>

\* duration = datetime.now() - self.start_time; duration.seconds // 60 and
\* duration.seconds % 60 (a run never lasts a day)
Duration ==
    LET seconds == SecondsOf(now - start_time) IN
    [minutes |-> seconds \div 60, seconds |-> seconds % 60]

\* the loop over self.results.items(): one row per recorded outcome, with the
\* mark, the username and the stored path when there is one
Rows ==
    [platform \in DOMAIN results |->
        [success  |-> results[platform].success,
         username |-> results[platform].username,
         filename |-> IF "filename" \in DOMAIN results[platform]
                      THEN results[platform].filename ELSE ""]]

\* success_count += 1 for every recorded outcome with data['success']
SuccessCount ==
    Cardinality({platform \in DOMAIN results : results[platform].success})

\* a final status with only two branches
FinalStatusAllOrNothing(success_count, total_count) ==
    IF success_count = total_count /\ total_count > 0
    THEN [level |-> "success", counts |-> <<success_count, total_count>>]
    ELSE [level |-> "error", counts |-> <<>>]

\* the final status: ui.success and ui.warning are given
\* "{success_count}/{total_count} platforms", ui.error is given no count
FinalStatus(success_count, total_count) ==
    IF success_count = total_count /\ total_count > 0
    THEN [level |-> "success", counts |-> <<success_count, total_count>>]
    ELSE IF success_count > 0
    THEN [level |-> "warning", counts |-> <<success_count, total_count>>]
    ELSE [level |-> "error", counts |-> <<>>]

\* a summary printed as soon as one outcome is recorded
ShowSummaryInLoop ==
    /\ opc = "after"
    /\ LET total_count == Cardinality(DOMAIN results) IN
       summary' = Append(summary,
                         [duration |-> Duration, rows |-> Rows,
                          status |-> FinalStatus(SuccessCount, total_count)])
    /\ opc' = "summarized"
    /\ UNCHANGED <<platforms, usernames, config, idx, results, cwd, resdir, now,
                   clientVars, stub, ran, slept, start_time>>

\* self._show_summary() after the loop
ShowSummary ==
    /\ opc = "done"
    /\ LET total_count == Cardinality(DOMAIN results) IN
       summary' = Append(summary,
                         [duration |-> Duration, rows |-> Rows,
                          status |-> FinalStatus(SuccessCount, total_count)])
    /\ opc' = "summarized"
    /\ UNCHANGED <<platforms, usernames, config, idx, results, cwd, resdir, now,
                   clientVars, stub, ran, slept, start_time>>

\* where run() is about to call self._save_json
SavePcs ==
    {"gh_save", "so_save", "yt_save", "bs_save", "ms_save", "rd_save", "md_save",
     "tg_save"}

\* what a file holds when the writer of run i was stopped inside json.dump:
\* the beginning of the document of run i
Partial(i) == 0 - i

\* Ctrl-C while a platform is running: KeyboardInterrupt is no Exception, so
\* it passes every handler of run() and of _run_extractions and reaches
\* main(), which prints a warning and ends the process; everything the
\* process held in memory is gone, the files stay as they are.  An interrupt
\* in _save_json arrives before open(), or after open() created the file and
\* while json.dump is writing into it; the with block then closes the file
\* over what was written so far.  (After the write it arrives with run()
\* returned and the file not yet moved.)
Interrupt ==
    /\ opc = "run"
    /\ IF cpc \in SavePcs
       THEN \E opened \in BOOLEAN :
              cwd' = IF opened
                     THEN WriteFile(cwd, SaveJsonName(mem.platform, mem.username, now),
                                    Partial(idx))
                     ELSE cwd
       ELSE cwd' = cwd
    /\ opc' = "cancelled"
    /\ cpc' = "idle" /\ mem' = IdleMem /\ ret' = RetNone
    /\ reqlog' = <<>> /\ writes' = <<>>
    /\ UNCHANGED <<platforms, usernames, config, idx, results, resdir, now, stub,
                   ran, slept, start_time, summary>>

-----------------------------------------------------------------------------
(* The orchestrator run *)

\* The lists of platforms the model selects: n consecutive entries of the
\* menu starting anywhere (the menu taken as a ring), for every n up to
\* MaxSelected, and one platform selected twice
Window(p, n) == [i \in 1..n |-> ((p + i - 2) % 8) + 1]

Repeat(p, n) == [i \in 1..n |-> p]

PlatformLists ==
    {Window(p, n) : p \in PlatformIds, n \in 1..MaxSelected}
        \cup {Repeat(p, 2) : p \in PlatformIds}

MainUsernames == {"octocat"}

StartTimes == {118}

\* config.yaml: which credentials are present.  The credentials of a platform
\* that is not selected are never read, and are taken as present.  (The
\* GitHub token, the Stack Overflow key, the Mastodon instance name and the
\* Telegram phone number change no decision of the code.)
Configs == [youtube_key : BOOLEAN, telegram_id : BOOLEAN, telegram_hash : BOOLEAN]

ConfigsFor(selected) ==
    {c \in Configs :
        /\ (2 \notin Range(selected) => c.youtube_key)
        /\ (8 \notin Range(selected) => c.telegram_id /\ c.telegram_hash)}

Init ==
    /\ platforms \in PlatformLists
    /\ \E u \in MainUsernames : usernames = [pid \in Range(platforms) |-> u]
    /\ config \in ConfigsFor(platforms)
    /\ idx = 1
    /\ opc = "loop"
    /\ results = <<>>
    /\ cwd = <<>>
    /\ resdir = <<>>
    /\ now \in StartTimes
    /\ cpc = "idle"
    /\ mem = IdleMem
    /\ ret = RetNone
    /\ reqlog = <<>>
    /\ writes = <<>>
    /\ stub = IdleStub
    /\ ran = <<>>
    /\ slept = <<>>
    /\ start_time = now
    /\ summary = <<>>

\* the steps of _run_extractions and of the extractor it runs
RunNext ==
    \/ StartPlatform
    \/ RecordOutcome
    \/ Cooldown
    \/ Finish
    \/ GitHubNext
    \/ StackOverflowNext
    \/ YouTubeNext
    \/ BlueskyNext
    \/ MastodonNext
    \/ RedditNext
    \/ MediumNext
    \/ TelegramNext

Next ==
    \/ RunNext
    \/ ShowSummary
    \/ Interrupt

Spec == Init /\ [][Next]_vars

-----------------------------------------------------------------------------
(* BaseExtractor._save_json called on its own, for any platform name,      *)
(* identity and time of day                                                 *)

SaveUsernames == {"octocat", "a_b", "@me.bsky.social"}

\* 00:00:00 and 00:00:59 on Jan 1st, 09:05:07 on Jan 3rd, 23:59:59 on
\* Jan 10th and 12:00:00 on Jan 31st, in half seconds
SaveTimes == {0, 118, 2 * (2 * 86400 + 9 * 3600 + 5 * 60 + 7),
              2 * (9 * 86400 + 23 * 3600 + 59 * 60 + 59) + 1,
              2 * (30 * 86400 + 12 * 3600)}

\* self._save_json(data, username) on an extractor of the given platform
SaveJson_call ==
    /\ opc = "save" /\ cpc = "entry"
    /\ SaveAndReturn(mem.data, mem.username)
    /\ UNCHANGED <<orchVars, now, mem, reqlog, stub>>

InitSave ==
    /\ platforms = <<>> /\ usernames = <<>> /\ idx = 1 /\ results = <<>>
    /\ config = [youtube_key |-> TRUE, telegram_id |-> TRUE, telegram_hash |-> TRUE]
    /\ opc = "save"
    /\ cwd = <<>> /\ resdir = <<>>
    /\ now \in SaveTimes
    /\ cpc = "entry"
    /\ \E platform_name \in PlatformNames, username \in SaveUsernames :
          mem = [platform |-> platform_name, username |-> username,
                 data |-> [extraction_date |-> IsoFormat(now)]]
    /\ ret = RetNone /\ reqlog = <<>> /\ writes = <<>>
    /\ stub = IdleStub /\ ran = <<>> /\ slept = <<>>
    /\ start_time = now /\ summary = <<>>

NextSave == SaveJson_call

SpecSave == InitSave /\ [][NextSave]_vars

-----------------------------------------------------------------------------
(* The multi-select step on its own: run() of the Stack Overflow and        *)
(* YouTube extractors at the prompt, for every candidate list up to         *)
(* MaxCandidates and every typed line up to MaxTyped characters             *)

\* most candidates found by a search
MaxCandidates == 3

\* longest line typed at the prompt
MaxTyped == 3

TypedChars == {"1", "2", "9", "0", "-", ",", " ", "x"}

RECURSIVE StringsOfLen(_)
StringsOfLen(n) ==
    IF n = 0 THEN {""}
    ELSE {s \o c : s \in StringsOfLen(n - 1), c \in TypedChars}

TypedStrings == UNION {StringsOfLen(n) : n \in 0..MaxTyped}

\* ids of n candidates: "u1", "u2", ...
Candidates(n) == [i \in 1..n |-> "u" \o Digit(i)]

InitSelect ==
    /\ platforms \in {<<1>>, <<2>>}
    /\ usernames = [pid \in Range(platforms) |-> "octocat"]
    /\ config = [youtube_key |-> TRUE, telegram_id |-> TRUE, telegram_hash |-> TRUE]
    /\ idx = 1 /\ opc = "run" /\ results = <<>>
    /\ cwd = <<>> /\ resdir = <<>>
    /\ now \in StartTimes
    /\ ret = RetNone /\ writes = <<>>
    /\ stub = IdleStub
    /\ ran = <<PlatformName(platforms[1])>> /\ slept = <<>>
    /\ start_time = now /\ summary = <<>>
    /\ \E n \in 1..MaxCandidates :
         LET cands == Candidates(n) IN
         IF platforms = <<1>>
         THEN /\ mem = [CreateExtractor("stackoverflow", "octocat")
                            EXCEPT !.users = cands]
              /\ cpc = "so_select"
              /\ reqlog = <<Req("stackoverflow.users", "identity", "ok", cands)>>
         ELSE /\ mem = [CreateExtractor("youtube", "octocat")
                            EXCEPT !.items = cands, !.channels = cands]
              /\ cpc = "yt_select"
              /\ reqlog = <<Req("youtube.search", "identity", "ok", cands),
                            Req("youtube.channels", "identity", "ok", cands)>>

NextSelect ==
    \/ \E typed \in TypedStrings : StackOverflow_select_typed(typed)
    \/ \E typed \in TypedStrings : YouTube_select_typed(typed)

SpecSelect == InitSelect /\ [][NextSelect]_vars

-----------------------------------------------------------------------------
(* The fetch loops of Bluesky and Mastodon against a mock server that      *)
(* answers every request with a page of stub.n items and announces a next  *)
(* page on the pages before the stub.k-th.                                  *)

\* most pages the mock server holds
MaxPages == 4

\* page sizes of the mock server: nothing, one item, the page sizes the
\* extractors ask for (40 and 100), sizes that do not divide the cap, and a
\* page larger than the cap
MockPageSizes == {0, 1, 40, 70, 100, 150, 250}

\* what a Mastodon server may send on its last page: no Link header, or one
\* with only a rel="prev" link
LastLinks == {"", "<u0>; rel=\"prev\""}

\* the number of pages the mock server has been asked for so far
Served(site) == Cardinality({j \in 1..Len(reqlog) : reqlog[j].site = site})

\* the mock Bluesky server answers the request
MockBlueskyPage ==
    LET page == Served("bluesky.getAuthorFeed") + 1 IN
    /\ stub.step = "server"
    /\ Bluesky_posts_page("ok", stub.n,
                          IF page < stub.k THEN "c" \o Digit(page) ELSE "")

\* the mock Mastodon server answers the request
MockMastodonPage ==
    LET page == Served("mastodon.statuses") + 1 IN
    /\ stub.step = "server"
    /\ Mastodon_statuses_page("ok", stub.n,
                              IF page < stub.k
                              THEN "<u0>; rel=\"prev\", <u" \o Digit(page + 1)
                                       \o ">; rel=\"next\""
                              ELSE stub.last)

InitPage ==
    /\ platforms \in {<<4>>, <<5>>}
    /\ usernames = [pid \in Range(platforms) |-> "octocat"]
    /\ config = [youtube_key |-> TRUE, telegram_id |-> TRUE, telegram_hash |-> TRUE]
    /\ idx = 1 /\ opc = "run" /\ results = <<>>
    /\ cwd = <<>> /\ resdir = <<>>
    /\ now \in StartTimes
    /\ ret = RetNone /\ writes = <<>>
    /\ ran = <<PlatformName(platforms[1])>> /\ slept = <<>>
    /\ start_time = now /\ summary = <<>>
    /\ \E n \in MockPageSizes, k \in 1..MaxPages, last \in LastLinks :
         stub = [step |-> "server", n |-> n, k |-> k,
                 last |-> IF platforms = <<5>> THEN last ELSE ""]
    /\ IF platforms = <<4>>
       THEN /\ mem = [CreateExtractor("bluesky", "octocat")
                          EXCEPT !.handles = HandlesToTry("octocat"), !.try = 1,
                                 !.did = "did:octocat",
                                 !.profile = [handle |-> "did:octocat"]]
            /\ cpc = "bs_posts"
            /\ reqlog = <<Req("bluesky.resolveHandle", "identity", "ok", "octocat"),
                          Req("bluesky.getProfile", "profile", "ok", "did:octocat")>>
       ELSE /\ mem = [CreateExtractor("mastodon", "octocat")
                          EXCEPT !.account = [id |-> "42", username |-> "octocat"],
                                 !.url = "accounts/42/statuses"]
            /\ cpc = "ms_statuses"
            /\ reqlog = <<Req("mastodon.lookup", "profile", "ok", "octocat")>>

NextPage ==
    \/ MockBlueskyPage
    \/ MockMastodonPage
    \/ Bluesky_save
    \/ Mastodon_save

SpecPage == InitPage /\ [][NextPage]_vars

-----------------------------------------------------------------------------
(* The Bluesky and Mastodon loops against a server that never ends the      *)
(* pagination: every answer carries the same cursor, or a Link header with  *)
(* the same rel="next" URL, and a page of stub.n items                      *)

\* page sizes of the endless server: nothing, one item, a few, and the page
\* sizes the extractors ask for
EndlessPageSizes == {0, 1, 7, 40, 100}

EndlessBlueskyPage ==
    /\ stub.step = "endless"
    /\ Bluesky_posts_page("ok", stub.n, "same")

EndlessMastodonPage ==
    /\ stub.step = "endless"
    /\ Mastodon_statuses_page("ok", stub.n, "<u1>; rel=\"next\"")

InitLoop ==
    /\ platforms \in {<<4>>, <<5>>}
    /\ usernames = [pid \in Range(platforms) |-> "octocat"]
    /\ config = [youtube_key |-> TRUE, telegram_id |-> TRUE, telegram_hash |-> TRUE]
    /\ idx = 1 /\ opc = "run" /\ results = <<>>
    /\ cwd = <<>> /\ resdir = <<>>
    /\ now \in StartTimes
    /\ ret = RetNone /\ writes = <<>>
    /\ ran = <<PlatformName(platforms[1])>> /\ slept = <<>>
    /\ start_time = now /\ summary = <<>>
    /\ \E n \in EndlessPageSizes : stub = [step |-> "endless", n |-> n]
    /\ IF platforms = <<4>>
       THEN /\ mem = [CreateExtractor("bluesky", "octocat")
                          EXCEPT !.handles = HandlesToTry("octocat"), !.try = 1,
                                 !.did = "did:octocat",
                                 !.profile = [handle |-> "did:octocat"]]
            /\ cpc = "bs_posts"
            /\ reqlog = <<Req("bluesky.resolveHandle", "identity", "ok", "octocat"),
                          Req("bluesky.getProfile", "profile", "ok", "did:octocat")>>
       ELSE /\ mem = [CreateExtractor("mastodon", "octocat")
                          EXCEPT !.account = [id |-> "42", username |-> "octocat"],
                                 !.url = "accounts/42/statuses"]
            /\ cpc = "ms_statuses"
            /\ reqlog = <<Req("mastodon.lookup", "profile", "ok", "octocat")>>

NextLoop ==
    \/ EndlessBlueskyPage
    \/ EndlessMastodonPage
    \/ Bluesky_save
    \/ Mastodon_save

SpecLoop == InitLoop /\ [][NextLoop]_vars

-----------------------------------------------------------------------------
(* The Bluesky and Mastodon loops against a server that answers each        *)
(* request with a full page and any cursor, or any Link header of the forms *)
(* RFC 8288 allows for a link to the next page                              *)

\* cursors of the server ("" is no cursor)
LinkCursors == {"", "c1", "c2"}

\* Link headers of the server: none; the next link alone, with and without
\* blanks; with a prev link after or before it; a prev link alone; the next
\* link with a further parameter
LinkHeaderForms ==
    {"",
     "<u2>; rel=\"next\"",
     "<u3>;rel=\"next\"",
     "<u2>; rel=\"next\", <u0>; rel=\"prev\"",
     "<u0>; rel=\"prev\", <u3>; rel=\"next\"",
     "<u0>; rel=\"prev\"",
     "<u2>; rel=\"next\"; title=\"older\""}

\* page sizes of this server: the page sizes the extractors ask for
LinkPageSizes == {40, 100}

LinkBlueskyPage ==
    /\ stub.step = "link"
    /\ \E n \in LinkPageSizes, cursor \in LinkCursors :
         Bluesky_posts_page("ok", n, cursor)

LinkMastodonPage ==
    /\ stub.step = "link"
    /\ \E n \in LinkPageSizes, link_header \in LinkHeaderForms :
         Mastodon_statuses_page("ok", n, link_header)

InitLink ==
    /\ platforms \in {<<4>>, <<5>>}
    /\ usernames = [pid \in Range(platforms) |-> "octocat"]
    /\ config = [youtube_key |-> TRUE, telegram_id |-> TRUE, telegram_hash |-> TRUE]
    /\ idx = 1 /\ opc = "run" /\ results = <<>>
    /\ cwd = <<>> /\ resdir = <<>>
    /\ now \in StartTimes
    /\ ret = RetNone /\ writes = <<>>
    /\ ran = <<PlatformName(platforms[1])>> /\ slept = <<>>
    /\ start_time = now /\ summary = <<>>
    /\ stub = [step |-> "link"]
    /\ IF platforms = <<4>>
       THEN /\ mem = [CreateExtractor("bluesky", "octocat")
                          EXCEPT !.handles = HandlesToTry("octocat"), !.try = 1,
                                 !.did = "did:octocat",
                                 !.profile = [handle |-> "did:octocat"]]
            /\ cpc = "bs_posts"
            /\ reqlog = <<Req("bluesky.resolveHandle", "identity", "ok", "octocat"),
                          Req("bluesky.getProfile", "profile", "ok", "did:octocat")>>
       ELSE /\ mem = [CreateExtractor("mastodon", "octocat")
                          EXCEPT !.account = [id |-> "42", username |-> "octocat"],
                                 !.url = "accounts/42/statuses"]
            /\ cpc = "ms_statuses"
            /\ reqlog = <<Req("mastodon.lookup", "profile", "ok", "octocat")>>

NextLink ==
    \/ LinkBlueskyPage
    \/ LinkMastodonPage
    \/ Bluesky_save
    \/ Mastodon_save

SpecLink == InitLink /\ [][NextLink]_vars

-----------------------------------------------------------------------------
(* The identity steps of the Bluesky run, for targets given with and        *)
(* without an "@" and with and without a domain                             *)

ResolveUsernames ==
    {"octocat", "@octocat", "bob", "@b", "alice.bsky.social", "@alice.com", "a.b"}

InitResolve ==
    /\ platforms = <<4>>
    /\ usernames \in [{4} -> ResolveUsernames]
    /\ config = [youtube_key |-> TRUE, telegram_id |-> TRUE, telegram_hash |-> TRUE]
    /\ idx = 1 /\ opc = "run" /\ results = <<>>
    /\ cwd = <<>> /\ resdir = <<>>
    /\ now \in StartTimes
    /\ cpc = "entry"
    /\ mem = CreateExtractor("bluesky", usernames[4])
    /\ ret = RetNone /\ reqlog = <<>> /\ writes = <<>>
    /\ stub = IdleStub
    /\ ran = <<"bluesky">> /\ slept = <<>>
    /\ start_time = now /\ summary = <<>>

NextResolve ==
    \/ Bluesky_run
    \/ Bluesky_resolve_handle
    \/ Bluesky_get_profile

SpecResolve == InitResolve /\ [][NextResolve]_vars

-----------------------------------------------------------------------------
(* _show_summary on its own, over every table of at most MaxOutcomes        *)
(* recorded outcomes, the empty table included, after a run of any length   *)

\* most outcomes recorded in the table
MaxOutcomes == 2

SummaryDelays == {0, 2, 7, 120, 245}

InitSummary ==
    /\ platforms = <<>> /\ usernames = <<>> /\ idx = 1
    /\ config = [youtube_key |-> TRUE, telegram_id |-> TRUE, telegram_hash |-> TRUE]
    /\ opc = "done"
    /\ \E recorded \in SUBSET PlatformNames :
         /\ Cardinality(recorded) <= MaxOutcomes
         /\ \E ok \in [recorded -> BOOLEAN] :
              results = [platform \in recorded |->
                           IF ok[platform]
                           THEN Success("octocat",
                                        DestPath(SaveJsonName(platform, "octocat", 118)))
                           ELSE Failure("octocat")]
    /\ cwd = <<>> /\ resdir = <<>>
    /\ start_time \in StartTimes
    /\ \E delay \in SummaryDelays : now = start_time + delay
    /\ cpc = "idle" /\ mem = IdleMem
    /\ ret = RetNone /\ reqlog = <<>> /\ writes = <<>>
    /\ stub = IdleStub /\ ran = <<>> /\ slept = <<>>
    /\ summary = <<>>

NextSummary == ShowSummary

SpecSummary == InitSummary /\ [][NextSummary]_vars

-----------------------------------------------------------------------------
(* Properties of a single run() *)

\* run() has returned a filename, and the orchestrator has not yet moved on
RunSucceeded == cpc = "returned" /\ ret # RetNone

\* C1: a call of run() that returns a filename has written exactly one file
\* during that call, under the returned name, and that file is in the working
\* directory when run() returns (all eight extractors)
C1_OneWritePerSuccessfulRun ==
    (opc = "run" /\ RunSucceeded) =>
        /\ Len(writes) = 1
        /\ writes[1].name = ret
        /\ ret \in DOMAIN cwd
        /\ cwd[ret] = idx

\* C1 happens: the second platform of a list has returned a filename
C1_Witness ==
    /\ opc = "run" /\ RunSucceeded
    /\ idx = 2
    /\ Len(writes) = 1 /\ ret \in DOMAIN cwd

AllDigits(s) == \A i \in 1..Len(s) : Char(s, i) \in DigitChars

\* the part of the returned name that precedes the timestamp
C2_Prefix == mem.platform \o "_" \o mem.username \o "_"

\* what stands between the prefix and ".json" in the returned name
C2_Stamp == SubSeq(ret, Len(C2_Prefix) + 1, Len(ret) - 5)

C2_Framed ==
    /\ Len(ret) >= Len(C2_Prefix) + 5
    /\ SubSeq(ret, 1, Len(C2_Prefix)) = C2_Prefix
    /\ SubSeq(ret, Len(ret) - 4, Len(ret)) = ".json"

\* C2 as the specification states it: the returned name is
\* {platformName}_{targetIdentity}_{timestamp}.json, the timestamp being the
\* 14 digits YYYYMMDDHHMMSS of the time of the save, with no separator
C2_FourteenDigitStamp ==
    RunSucceeded =>
        /\ C2_Framed
        /\ Len(C2_Stamp) = 14
        /\ AllDigits(C2_Stamp)
        /\ DigitsVal(SubSeq(C2_Stamp, 1, 4)) = Year(now)
        /\ DigitsVal(SubSeq(C2_Stamp, 5, 6)) = Month(now)
        /\ DigitsVal(SubSeq(C2_Stamp, 7, 8)) = Day(now)
        /\ DigitsVal(SubSeq(C2_Stamp, 9, 10)) = Hour(now)
        /\ DigitsVal(SubSeq(C2_Stamp, 11, 12)) = Minute(now)
        /\ DigitsVal(SubSeq(C2_Stamp, 13, 14)) = Second(now)

\* C2, as the code has it: the returned name is
\* {platformName}_{targetIdentity}_{timestamp}.json, the timestamp being 15
\* characters, the 8 digits YYYYMMDD, an underscore, and the 6 digits HHMMSS
\* of the time of the save
C2_DateUnderscoreTimeStamp ==
    RunSucceeded =>
        /\ C2_Framed
        /\ Len(C2_Stamp) = 15
        /\ AllDigits(SubSeq(C2_Stamp, 1, 8))
        /\ Char(C2_Stamp, 9) = "_"
        /\ AllDigits(SubSeq(C2_Stamp, 10, 15))
        /\ DigitsVal(SubSeq(C2_Stamp, 1, 4)) = Year(now)
        /\ DigitsVal(SubSeq(C2_Stamp, 5, 6)) = Month(now)
        /\ DigitsVal(SubSeq(C2_Stamp, 7, 8)) = Day(now)
        /\ DigitsVal(SubSeq(C2_Stamp, 10, 11)) = Hour(now)
        /\ DigitsVal(SubSeq(C2_Stamp, 12, 13)) = Minute(now)
        /\ DigitsVal(SubSeq(C2_Stamp, 14, 15)) = Second(now)

\* C2 happens: a file was saved at 23:59:59 on the 10th for an identity that
\* itself contains an underscore
C2_Witness ==
    /\ RunSucceeded
    /\ mem.username = "a_b"
    /\ Hour(now) = 23 /\ Second(now) = 59 /\ Day(now) = 10
    /\ ret \in DOMAIN cwd

\* the failures of identity resolution and of the profile (primary section)
\* fetch after which run() gives up
FatalEntry(e) ==
    \/ e.site = "github.users" /\ e.resp = "reqexc"
    \/ /\ e.site \in {"stackoverflow.users", "youtube.search", "youtube.channels"}
       /\ (e.resp = "reqexc" \/ (e.resp = "ok" /\ e.payload = <<>>))
    \/ e.site = "bluesky.getProfile" /\ e.resp = "reqexc"
    \/ e.site = "mastodon.lookup" /\ e.resp = "reqexc"
    \/ e.site = "reddit.about" /\ e.resp \in {"reqexc", "nodata"}
    \/ e.site = "medium.feed" /\ e.resp \in {"reqexc", "parseerror"}
    \/ e.site = "telegram.connect" /\ e.resp = "exc"
    \/ e.site = "telegram.get_entity" /\ e.resp \in {"notoccupied", "exc"}

\* no variant of the Bluesky handle has given a DID
BlueskyUnresolved ==
    /\ mem.platform = "bluesky"
    /\ Len(reqlog) = Len(HandlesToTry(mem.username))
    /\ \A j \in 1..Len(reqlog) :
          /\ reqlog[j].site = "bluesky.resolveHandle"
          /\ reqlog[j].resp \in {"reqexc", "nodid"}

FatalAt(j) ==
    \/ FatalEntry(reqlog[j])
    \/ BlueskyUnresolved /\ j = Len(reqlog)

\* C3: once identity resolution or the profile fetch has failed, run() has
\* returned no filename, has written no file, and has issued no request at
\* all after the failed one (so no content-collection request)
C3_FatalFailureStopsTheRun ==
    \A j \in 1..Len(reqlog) :
        FatalAt(j) =>
            /\ cpc \in {"returned", "recorded"}
            /\ ret = RetNone
            /\ writes = <<>>
            /\ j = Len(reqlog)
            /\ \A k \in (j + 1)..Len(reqlog) : reqlog[k].role # "collection"

\* C3 happens: run() has returned after the third variant of a Bluesky
\* handle failed to resolve
C3_Witness ==
    /\ BlueskyUnresolved
    /\ Len(reqlog) = 3
    /\ cpc = "returned" /\ ret = RetNone

-----------------------------------------------------------------------------
(* Secondary collections *)

SecondarySites ==
    {"github.repos", "github.events", "stackoverflow.questions",
     "stackoverflow.answers", "stackoverflow.badges", "youtube.videos",
     "reddit.submitted", "reddit.comments"}

\* the request j of the run was for a secondary collection and failed
FailedSecondary(j) ==
    reqlog[j].site \in SecondarySites /\ reqlog[j].resp = "reqexc"

\* the request that follows a secondary collection's in the same run, if any
FollowedBy(site) ==
    CASE site = "github.repos" -> {"github.events"}
      [] site = "stackoverflow.questions" -> {"stackoverflow.answers"}
      [] site = "stackoverflow.answers" -> {"stackoverflow.badges"}
      [] site = "stackoverflow.badges" -> {"stackoverflow.profile"}
      [] site = "youtube.videos" -> {"youtube.channel"}
      [] site = "reddit.submitted" -> {"reddit.comments"}
      [] OTHER -> {}

\* where run() stands right after a secondary collection that is followed by
\* another one for the same identity
NextFetchPc(site) ==
    CASE site = "github.repos" -> {"gh_events"}
      [] site = "stackoverflow.questions" -> {"so_answers"}
      [] site = "stackoverflow.answers" -> {"so_badges"}
      [] site = "reddit.submitted" -> {"rd_comments"}
      [] OTHER -> {"gh_save", "rd_save", "so_append", "so_profile", "so_save",
                   "yt_channel_info", "yt_save", "returned", "recorded",
                   "raised", "caught"}

\* what a request has contributed: its items, or nothing when it failed
Got(e) == IF e.resp = "ok" THEN e.payload ELSE <<>>

TheRequest(site) == reqlog[CHOOSE j \in 1..Len(reqlog) : reqlog[j].site = site]

\* positions of the profile requests (of the given site) that succeeded
RECURSIVE OkProfiles(_, _)
OkProfiles(site, j) ==
    IF j > Len(reqlog) THEN <<>>
    ELSE (IF reqlog[j].site = site /\ reqlog[j].resp = "ok" THEN <<j>> ELSE <<>>)
             \o OkProfiles(site, j + 1)

\* the written document holds, for every collection, what its request gave
DocumentAsFetched ==
    LET doc == writes[1].data IN
    CASE mem.platform = "github" ->
           /\ doc.repositories =
                 [i \in 1..Len(Got(TheRequest("github.repos"))) |->
                     [name |-> Got(TheRequest("github.repos"))[i]]]
           /\ doc.events =
                 [i \in 1..Len(Got(TheRequest("github.events"))) |->
                     [type |-> Got(TheRequest("github.events"))[i]]]
           /\ doc.user_info.username = TheRequest("github.users").payload.login
      [] mem.platform = "reddit" ->
           /\ doc.posts = Got(TheRequest("reddit.submitted"))
           /\ doc.comments = Got(TheRequest("reddit.comments"))
           /\ doc.user_info.username = TheRequest("reddit.about").payload
      [] mem.platform = "stackoverflow" ->
           LET at == OkProfiles("stackoverflow.profile", 1) IN
           /\ Len(doc.users) = Len(at)
           /\ \A k \in 1..Len(at) :
                 /\ doc.users[k].user_info.user_id = reqlog[at[k]].payload
                 /\ doc.users[k].questions = Got(reqlog[at[k] + 1])
                 /\ doc.users[k].answers = Got(reqlog[at[k] + 2])
                 /\ doc.users[k].badges = Got(reqlog[at[k] + 3])
      [] mem.platform = "youtube" ->
           LET at == OkProfiles("youtube.channel", 1) IN
           /\ Len(doc.channels) = Len(at)
           /\ \A k \in 1..Len(at) :
                 /\ doc.channels[k].channel_info.id = reqlog[at[k]].payload
                 /\ doc.channels[k].videos = Got(reqlog[at[k] + 1])
      [] OTHER -> TRUE

\* the file run() returned is now in the results directory
Moved == DestPath(ret) \in DOMAIN resdir /\ ret \notin DOMAIN cwd

\* C4: after the profile was fetched, a failed request for a secondary
\* collection does not end the run: the next fetch is the next thing run()
\* does; when run() returns it returns a filename, having written one
\* document in which the failed collection is the empty list and every other
\* section is what its request gave; and once the file is moved the
\* orchestrator records a successful outcome.  (A run can still fail for
\* other reasons: the file cannot be written or moved, a body is malformed.)
C4_SecondaryFailureDegrades ==
    \A j \in 1..Len(reqlog) :
        FailedSecondary(j) =>
            /\ j < Len(reqlog) => reqlog[j + 1].site \in FollowedBy(reqlog[j].site)
            /\ j = Len(reqlog) => cpc \in NextFetchPc(reqlog[j].site)
            /\ cpc \in {"returned", "recorded"} =>
                  /\ ret # RetNone
                  /\ Len(writes) = 1
                  /\ Got(reqlog[j]) = <<>>
                  /\ DocumentAsFetched
            /\ (opc = "after" /\ cpc = "recorded" /\ Moved) =>
                  /\ PlatformName(platforms[idx]) \in DOMAIN results
                  /\ results[PlatformName(platforms[idx])].success
                  /\ results[PlatformName(platforms[idx])].filename = DestPath(ret)

\* C4 happens: a GitHub run whose repositories request failed and whose
\* events request gave one event has been recorded as a success
C4_Witness ==
    /\ mem.platform = "github" /\ opc = "after" /\ cpc = "recorded" /\ Moved
    /\ Len(reqlog) = 3
    /\ FailedSecondary(2)
    /\ reqlog[3].resp = "ok" /\ Len(reqlog[3].payload) = 1
    /\ results["github"].success

-----------------------------------------------------------------------------
(* Capped collections *)

\* C5: whatever the servers answer, the collection a capped fetch returns
\* has at most cap items: 200 Bluesky posts, 200 Mastodon toots, 800
\* Telegram messages; so has the collection of every written document
C5_CapRespected ==
    /\ mem.platform = "bluesky" =>
          /\ Len(mem.posts) <= 200
          /\ \A i \in 1..Len(writes) : Len(writes[i].data.posts) <= 200
    /\ mem.platform = "mastodon" =>
          /\ Len(mem.statuses) <= 200
          /\ \A i \in 1..Len(writes) : Len(writes[i].data.statuses) <= 200
    /\ mem.platform = "telegram" =>
          /\ Len(mem.messages) <= 800
          /\ \A i \in 1..Len(writes) : Len(writes[i].data.messages) <= 800

\* C5 happens: a Bluesky loop that had gathered more than 200 posts (three
\* pages of 90) has returned 200 of them, and they were written
C5_Witness ==
    /\ mem.platform = "bluesky" /\ cpc = "returned"
    /\ Len(mem.all_posts) = 270
    /\ Len(mem.posts) = 200
    /\ Len(writes) = 1

\* the collection request site, the cap and the result of the fetch loop of
\* the extractor that faces the mock server
PagedSite == IF mem.platform = "bluesky" THEN "bluesky.getAuthorFeed"
             ELSE "mastodon.statuses"

PagedResult == IF mem.platform = "bluesky" THEN mem.posts ELSE mem.statuses

\* the number of requests of the loop that precede request j of the run
PagesBefore(j) ==
    Cardinality({i \in 1..(j - 1) : reqlog[i].site = PagedSite})

\* C6: against a server that gives N items per page and announces no next
\* page from page K on, the Bluesky and Mastodon loops issue at most K
\* requests, issue no request once 200 items are gathered, and return
\* exactly the first min(N*K, 200) items of the server, in its order
C6_PaginationStopsAndCollects ==
    stub.step = "server" =>
        /\ Served(PagedSite) <= stub.k
        /\ \A j \in 1..Len(reqlog) :
              reqlog[j].site = PagedSite => stub.n * PagesBefore(j) < 200
        /\ cpc \in {"bs_save", "ms_save", "returned", "raised"} =>
              PagedResult = [i \in 1..Min(stub.n * stub.k, 200) |-> i]

\* C6 happens: a Mastodon loop has stopped after the third of four pages of
\* 70 toots, the cap being reached, and its result was saved
C6_Witness ==
    /\ stub.step = "server" /\ stub.n = 70 /\ stub.k = 4
    /\ mem.platform = "mastodon" /\ cpc = "returned" /\ ret # RetNone
    /\ Served("mastodon.statuses") = 3
    /\ Len(mem.statuses) = 200

-----------------------------------------------------------------------------
(* The multi-select step *)

\* the ,-separated parts of the line typed
TypedParts == StrSplit(StrStrip(stub.typed), ",")

\* the part is a number
IsNumber(part) == PyIntOk(part)

\* the part is a 1-based index of a candidate
IsValidIndex(part) == IsNumber(part) /\ PyInt(part) \in 1..Len(stub.cands)

\* the candidates the valid indices of the line name, in the order typed
ListedCandidates ==
    LET valid == SelectSeq(TypedParts, IsValidIndex) IN
    [k \in 1..Len(valid) |-> stub.cands[PyInt(valid[k])]]

FirstCandidateOnly == <<stub.cands[1]>>

\* C7: for every non-empty candidate list and every line typed, the
\* multi-select step of _select_user and of _select_channels does not raise
\* and returns at least one candidate
C7_SelectionNeverRaisesNorEmpty ==
    stub.step = "done" =>
        /\ ~stub.raised
        /\ cpc # "raised"
        /\ stub.ids # <<>>
        /\ \A k \in 1..Len(stub.ids) : stub.ids[k] \in Range(stub.cands)

\* C7 happens: a negative number followed by a stray comma was typed against
\* three candidates
C7_Witness ==
    /\ stub.step = "done"
    /\ stub.typed = "-1,"
    /\ Len(stub.cands) = 3
    /\ stub.ids = <<"u1">>

\* C8 as the specification states it: valid indices select exactly the
\* candidates listed; the empty line selects all; a line with any
\* unparseable or out-of-range index selects the first candidate only, with
\* a warning
C8_AnyBadIndexFallsBack ==
    stub.step = "done" =>
        /\ (StrStrip(stub.typed) # "" /\ \A k \in 1..Len(TypedParts) :
                                            IsValidIndex(TypedParts[k]))
              => (stub.ids = ListedCandidates /\ ~stub.warned)
        /\ stub.typed = "" => (stub.ids = stub.cands /\ ~stub.warned)
        /\ (StrStrip(stub.typed) # "" /\ \E k \in 1..Len(TypedParts) :
                                            ~IsValidIndex(TypedParts[k]))
              => (stub.ids = FirstCandidateOnly /\ stub.warned)

\* C8, as the code has it: valid indices select exactly the candidates
\* listed; the empty line selects all; a line with a part that is not a
\* number selects the first candidate only, with a warning; in a line of
\* numbers the out-of-range ones are dropped without a warning and the
\* candidates of the others are selected, and only when none is in range is
\* the first candidate selected, with a warning
C8_OutOfRangeDroppedSilently ==
    stub.step = "done" =>
        /\ (StrStrip(stub.typed) # "" /\ \A k \in 1..Len(TypedParts) :
                                            IsValidIndex(TypedParts[k]))
              => (stub.ids = ListedCandidates /\ ~stub.warned)
        /\ stub.typed = "" => (stub.ids = stub.cands /\ ~stub.warned)
        /\ (StrStrip(stub.typed) # "" /\ \E k \in 1..Len(TypedParts) :
                                            ~IsNumber(TypedParts[k]))
              => (stub.ids = FirstCandidateOnly /\ stub.warned)
        /\ (StrStrip(stub.typed) # "" /\ \A k \in 1..Len(TypedParts) :
                                            IsNumber(TypedParts[k]))
              => IF ListedCandidates # <<>>
                 THEN stub.ids = ListedCandidates /\ ~stub.warned
                 ELSE stub.ids = FirstCandidateOnly /\ stub.warned

\* C8 happens: "2,9" typed against two candidates has selected the second
\* one, without a warning
C8_Witness ==
    /\ stub.step = "done"
    /\ stub.typed = "2,9"
    /\ Len(stub.cands) = 2
    /\ stub.ids = <<"u2">>
    /\ ~stub.warned

-----------------------------------------------------------------------------
(* The orchestrator loop *)

\* C9: _run_extractions starts the platforms of the list one by one in list
\* order; every platform started before the current one has an outcome,
\* whatever it was; the loop can always take its next step until it is over,
\* and when it is over every platform of the list was started and every
\* selected platform name has an outcome
C9_EveryPlatformRunsAndIsRecorded ==
    /\ idx \in 1..Len(platforms)
    /\ Len(ran) = (IF opc = "loop" THEN idx - 1 ELSE idx)
    /\ \A i \in 1..Len(ran) : ran[i] = PlatformName(platforms[i])
    /\ \A i \in 1..Len(ran) :
          (i < idx \/ opc \in {"after", "done", "summarized"}) =>
              ran[i] \in DOMAIN results
    /\ opc \in {"loop", "run", "after"} => ENABLED RunNext
    /\ opc \in {"done", "summarized"} =>
          /\ Len(ran) = Len(platforms)
          /\ \A i \in 1..Len(platforms) :
                PlatformName(platforms[i]) \in DOMAIN results

\* C9 happens: the loop is over, the first platform had failed and the
\* second one succeeded
C9_Witness ==
    /\ opc = "done"
    /\ platforms = <<3, 4>>
    /\ ran = <<"github", "bluesky">>
    /\ ~results["github"].success
    /\ results["bluesky"].success

\* C10 as the specification states it: whatever the upstream answers, also
\* a body that is valid JSON of an unexpected shape, run() ends by returning,
\* never by raising
C10_NoExceptionEscapesRun ==
    ~(/\ cpc = "raised"
      /\ reqlog # <<>>
      /\ reqlog[Len(reqlog)].resp = "badshape")

\* C11: the loop has slept once after each platform before the current one,
\* in order, and never after the current one; so a finished run over k
\* platforms has observed exactly k-1 cooldowns, whatever the outcomes were
C11_CooldownBetweenPlatformsOnly ==
    /\ Len(slept) = idx - 1
    /\ \A i \in 1..Len(slept) : slept[i].after = i
    /\ opc = "loop" => Len(ran) = Len(slept)
    /\ opc # "loop" => Len(ran) = Len(slept) + 1
    /\ opc = "done" => Len(slept) = Len(platforms) - 1

\* C11 happens: a run over two platforms is over, the first one had failed,
\* and one cooldown was observed, after it
C11_Witness ==
    /\ opc = "done"
    /\ Len(platforms) = 2
    /\ slept = <<[after |-> 1, success |-> FALSE]>>

\* C12: the summary says total success exactly when there is an outcome and
\* all outcomes are successes, says failure exactly when no outcome is a
\* success, and says partial success otherwise; where it gives counts they are
\* the number of successful outcomes and the number of outcomes
C12_SummaryClassification ==
    opc = "summarized" =>
        LET status == summary[Len(summary)].status
            recorded == DOMAIN results
            succeeded == {platform \in recorded : results[platform].success} IN
        /\ Len(summary) = 1
        /\ status.level = "success" <=> (recorded # {} /\ succeeded = recorded)
        /\ status.level = "error" <=> succeeded = {}
        /\ status.level = "warning" <=> (succeeded # {} /\ succeeded # recorded)
        /\ status.counts # <<>> =>
               status.counts = <<Cardinality(succeeded), Cardinality(recorded)>>
        /\ status.level # "error" => status.counts # <<>>

C12_Witness ==
    /\ opc = "summarized"
    /\ Cardinality(DOMAIN results) = 2
    /\ summary[1].status = [level |-> "warning", counts |-> <<1, 2>>]

\* the platform in progress needs credentials that the configuration lacks
MissingCredentials ==
    /\ opc \in {"run", "after"} /\ mem.platform \in {"youtube", "telegram"}
    /\ mem.platform = "youtube" => ~config.youtube_key
    /\ mem.platform = "telegram" => ~config.telegram_id \/ ~config.telegram_hash

\* C13: YouTube without an API key and Telegram without api_id or api_hash:
\* the run goes from its entry straight to returning nothing with the missing
\* credential reported, no request or connection was attempted, no file was
\* written, and the outcome recorded is a failure
C13_MissingCredentialsFailBeforeAnyRequest ==
    MissingCredentials =>
        /\ reqlog = <<>> /\ writes = <<>>
        /\ cpc \in {"entry", "returned", "recorded"}
        /\ cpc # "entry" =>
               /\ ret = RetNone
               /\ mem.platform = "youtube" => mem.error = "YouTube API key required"
               /\ mem.platform = "telegram" =>
                      mem.error = "Telegram API credentials required"
               /\ mem.platform = "telegram" => ~mem.connected
        /\ opc = "after" => ~results[mem.platform].success

C13_Witness ==
    /\ MissingCredentials /\ opc = "after"
    /\ mem.platform = "telegram" /\ config.telegram_id /\ ~config.telegram_hash

IsResolveRequest(e) == e.site = "bluesky.resolveHandle"

\* the resolution requests of the Bluesky run in progress, in order
ResolveLog == SelectSeq(reqlog, IsResolveRequest)

Unresolved(e) == e.resp \in {"reqexc", "nodid"}

\* the resolution requests made so far are the first ones of the list
\* expected, each one but the last was left unresolved, and the run is past
\* resolution exactly as its last answer says: a DID taken from the first
\* handle that resolved, nothing returned once the whole list was left
\* unresolved, an exception out of run() on an answer of unexpected shape
ResolvesAlong(expected) ==
    LET log == ResolveLog
        n == Len(log) IN
    /\ n <= Len(expected)
    /\ \A i \in 1..n : log[i].payload = expected[i]
    /\ \A i \in 1..(n - 1) : Unresolved(log[i])
    /\ cpc = "bs_resolve" => \A i \in 1..n : Unresolved(log[i])
    /\ (n > 0 /\ log[n].resp = "ok") =>
           /\ mem.did = "did:" \o log[n].payload
           /\ Len(reqlog) > n => reqlog[n + 1].site = "bluesky.getProfile"
           /\ Len(reqlog) = n => cpc = "bs_profile"
    /\ (n = Len(expected) /\ Unresolved(log[n])) =>
           /\ cpc = "returned" /\ ret = RetNone
           /\ Len(reqlog) = n
    /\ (n > 0 /\ log[n].resp = "badshape") => cpc = "raised" /\ Len(reqlog) = n
    /\ (n > 0 /\ cpc \in {"returned", "raised"} /\ Len(reqlog) = n) =>
           \/ n = Len(expected) /\ Unresolved(log[n])
           \/ log[n].resp = "badshape"

\* C14 as stated: for every handle the list tried is the input, the input
\* with .bsky.social and the input with .com
C14_ThreeVariantsOfEveryInput ==
    (Running("bluesky") /\ cpc # "entry") =>
        LET input == mem.username IN
        ResolvesAlong(<<input, input \o ".bsky.social", input \o ".com">>)

\* C14: the handle is the input without "@" and surrounding blanks; a handle
\* without a dot is tried as it is, then with .bsky.social, then with .com;
\* a handle with a dot is tried as it is and in no other form
C14_VariantsOnlyForBareHandles ==
    (Running("bluesky") /\ cpc # "entry") =>
        LET handle == StrStrip(StrRemove(mem.username, "@")) IN
        IF Contains(handle, ".")
        THEN ResolvesAlong(<<handle>>)
        ELSE ResolvesAlong(<<handle, handle \o ".bsky.social", handle \o ".com">>)

C14_Witness ==
    /\ Running("bluesky") /\ cpc = "returned"
    /\ mem.username = "alice.bsky.social"
    /\ reqlog = <<Req("bluesky.resolveHandle", "identity", "nodid",
                      "alice.bsky.social")>>

\* the top-level keys that hold an identity or a profile, and those that
\* hold a collection of content
IdentityKeys == {"user_info", "profile", "account", "entity_info", "channel_info"}

CollectionKeys ==
    {"repositories", "events", "questions", "answers", "badges", "videos",
     "posts", "statuses", "comments", "articles", "messages"}

\* YYYY-MM-DDTHH:MM:SS, with or without a fraction of a second
IsIsoStamp(s) ==
    /\ Len(s) >= 19
    /\ AllDigits(SubSeq(s, 1, 4)) /\ Char(s, 5) = "-"
    /\ AllDigits(SubSeq(s, 6, 7)) /\ Char(s, 8) = "-"
    /\ AllDigits(SubSeq(s, 9, 10)) /\ Char(s, 11) = "T"
    /\ AllDigits(SubSeq(s, 12, 13)) /\ Char(s, 14) = ":"
    /\ AllDigits(SubSeq(s, 15, 16)) /\ Char(s, 17) = ":"
    /\ AllDigits(SubSeq(s, 18, 19))

\* the top-level keys of the document of each platform
TopLevelKeys(platform_name) ==
    CASE platform_name = "github" -> {"user_info", "repositories", "events"}
      [] platform_name = "stackoverflow" -> {"users", "total_users"}
      [] platform_name = "youtube" -> {"channels", "total_channels"}
      [] platform_name = "bluesky" -> {"profile", "posts"}
      [] platform_name = "mastodon" -> {"account", "statuses"}
      [] platform_name = "reddit" -> {"user_info", "posts", "comments"}
      [] platform_name = "medium" -> {"articles"}
      [] platform_name = "telegram" -> {"entity_info", "messages"}

\* the keys of one entry of the list of a document of several targets
EntryKeys(platform_name) ==
    IF platform_name = "stackoverflow"
    THEN {"user_info", "questions", "answers", "badges", "extraction_date"}
    ELSE {"channel_info", "videos", "extraction_date"}

\* C15 as stated: every document written has, at its top level, an identity
\* or profile section, a content collection and an extraction_date
C15_ProfileCollectionAndDateAtTopLevel ==
    \A i \in 1..Len(writes) :
        LET keys == DOMAIN writes[i].data IN
        /\ keys \cap IdentityKeys # {}
        /\ keys \cap CollectionKeys # {}
        /\ "extraction_date" \in keys

\* C15: every document written has an ISO extraction_date at its top level
\* beside the keys of its platform.  An identity section and at least one
\* collection stand at the top level for GitHub, Bluesky, Mastodon, Reddit and
\* Telegram; for Stack Overflow and YouTube they stand inside each entry of a
\* non-empty list, beside the entry's own date, with the length of the list at
\* the top level; the Medium document has its articles and no identity section
C15_DocumentShapePerPlatform ==
    \A i \in 1..Len(writes) :
        LET data == writes[i].data
            platform_name == mem.platform
            keys == DOMAIN data IN
        /\ keys = TopLevelKeys(platform_name) \cup {"extraction_date"}
        /\ IsIsoStamp(data.extraction_date)
        /\ platform_name \in {"github", "bluesky", "mastodon", "reddit", "telegram"} =>
               /\ keys \cap IdentityKeys # {}
               /\ keys \cap CollectionKeys # {}
        /\ platform_name \in {"stackoverflow", "youtube"} =>
               LET list == IF platform_name = "stackoverflow"
                           THEN data.users ELSE data.channels
                   total == IF platform_name = "stackoverflow"
                            THEN data.total_users ELSE data.total_channels IN
               /\ keys \cap (IdentityKeys \cup CollectionKeys) = {}
               /\ list # <<>> /\ total = Len(list)
               /\ \A j \in 1..Len(list) :
                      /\ DOMAIN list[j] = EntryKeys(platform_name)
                      /\ IsIsoStamp(list[j].extraction_date)
        /\ platform_name = "medium" =>
               /\ keys \cap IdentityKeys = {}
               /\ data.articles # <<>>

C15_Witness ==
    /\ opc = "after" /\ mem.platform = "medium" /\ Len(writes) = 1
    /\ DOMAIN writes[1].data = {"articles", "extraction_date"}
    /\ results["medium"].success

\* the files of a directory that hold a whole document
Complete(dir) == \A name \in DOMAIN dir : dir[name] >= 1

\* C16 as stated: after an interrupt at any point of a platform run the
\* process is over and every document file on disk is complete
C16_InterruptLeavesNoPartialDocument ==
    opc = "cancelled" => Complete(cwd) /\ Complete(resdir)

IsPageRequest(e) ==
    e.site \in {"bluesky.getAuthorFeed", "mastodon.statuses", "telegram.iter_messages"}

\* the requests of the capped fetch of the run in progress, in order
PageLog == SelectSeq(reqlog, IsPageRequest)

\* the number of items the fetch had received when its request j was made
RECURSIVE ReceivedBefore(_)
ReceivedBefore(j) ==
    IF j <= 1 THEN 0
    ELSE ReceivedBefore(j - 1) + PageLog[j - 1].payload.n

\* the capped fetch of the run in progress has ended on a failure, after it
\* had received some items
FailedAfterSome ==
    /\ mem.platform \in {"bluesky", "mastodon", "telegram"}
    /\ PageLog # <<>>
    /\ LET last == PageLog[Len(PageLog)] IN
       IF mem.platform = "telegram"
       THEN last.resp = "exc" /\ last.payload.yielded > 0
       ELSE last.resp = "reqexc" /\ ReceivedBefore(Len(PageLog)) > 0

\* the items the fetch had received when it failed
ReceivedAtFailure ==
    IF mem.platform = "telegram"
    THEN PageLog[Len(PageLog)].payload.yielded
    ELSE ReceivedBefore(Len(PageLog))

\* the collection the fetch of the run in progress has returned
Fetched ==
    CASE mem.platform = "bluesky" -> mem.posts
      [] mem.platform = "mastodon" -> mem.statuses
      [] mem.platform = "telegram" -> mem.messages

\* the cap of the fetch of the run in progress
Cap == IF mem.platform = "telegram" THEN 800 ELSE 200

\* C17 as stated: a Bluesky, Mastodon or Telegram fetch that fails after it
\* had received some items returns those items, cut to the cap, the run goes
\* on to the save, and the document written holds them
C17_FailureKeepsCollectedItems ==
    (opc \in {"run", "after"} /\ FailedAfterSome) =>
        /\ cpc \in {"bs_save", "ms_save", "tg_save", "returned", "recorded",
                    "raised", "caught"}
        /\ Fetched = Items(0, Min(ReceivedAtFailure, Cap))
        /\ Fetched # <<>>
        /\ cpc \in {"raised", "caught"} => writes = <<>>

\* this step has made a request that ended in requests.RequestException
ReqExcStep ==
    /\ Len(reqlog') = Len(reqlog) + 1
    /\ reqlog'[Len(reqlog')].resp = "reqexc"

\* the request about to be made is for one of several identities or
\* profiles, and the run does not depend on this one: another variant of the
\* Bluesky handle is left to try, another selected Stack Overflow user or
\* YouTube channel is left to fetch, or one was fetched already
NotTheLastHope ==
    \/ cpc = "bs_resolve" /\ mem.try < Len(mem.handles)
    \/ /\ cpc \in {"so_profile", "yt_channel_info"}
       /\ (mem.pos < Len(mem.selected_ids) \/ mem.all_data # <<>>)

\* C18 as stated: a RequestException never leaves run(); at an identity or
\* profile request it makes run() return nothing, at any other request the
\* run goes on
C18_IdentityFailureAlwaysEndsTheRun ==
    [][ReqExcStep =>
          LET e == reqlog'[Len(reqlog')] IN
          /\ cpc' # "raised"
          /\ e.role = "collection" => cpc' # "returned" /\ ret' = ret
          /\ e.role \in {"identity", "profile"} =>
                 cpc' = "returned" /\ ret' = RetNone /\ writes' = <<>>]_vars

\* C18: a RequestException never leaves run(), at any request site of the
\* seven HTTP clients.  At a collection request the run goes on.  At an
\* identity or profile request run() returns nothing and has written nothing,
\* unless the run does not depend on that one request (a Bluesky handle
\* variant with another one left, one of several selected Stack Overflow
\* users or YouTube channels): then the run goes on without it
C18_RequestFailureCaughtAtItsSite ==
    [][ReqExcStep =>
          LET e == reqlog'[Len(reqlog')] IN
          /\ cpc' # "raised"
          /\ e.role = "collection" => cpc' # "returned" /\ ret' = ret
          /\ e.role \in {"identity", "profile"} =>
                 IF NotTheLastHope
                 THEN cpc' # "returned" /\ ret' = ret
                 ELSE cpc' = "returned" /\ ret' = RetNone /\ writes' = <<>>]_vars

\* C18 happens: the first variant of a Bluesky handle met a request failure,
\* the second one resolved, a later page request failed too, and run() has
\* returned a filename
C18_Witness ==
    /\ mem.platform = "bluesky" /\ RunSucceeded
    /\ Len(reqlog) >= 4
    /\ reqlog[1].site = "bluesky.resolveHandle" /\ reqlog[1].resp = "reqexc"
    /\ reqlog[2].site = "bluesky.resolveHandle" /\ reqlog[2].resp = "ok"
    /\ reqlog[Len(reqlog)].site = "bluesky.getAuthorFeed"
    /\ reqlog[Len(reqlog)].resp = "reqexc"

\* the path is that of a file named name inside the results directory
InResultsDir(path, name) == path = ResultsDir \o "/" \o name /\ name # ""

\* the name of the file of a path of the results directory
BaseName(path) == SubSeq(path, Len(ResultsDir) + 2, Len(path))

\* C19: every successful outcome in the table stores the path of a file that
\* is in the results directory and has no copy left in the working directory;
\* when the outcome of the current platform was just recorded as a success,
\* that file is the one document its run() wrote in the working directory and
\* returned, moved with its content
C19_MovedBeforeRecorded ==
    /\ \A platform \in DOMAIN results :
          results[platform].success =>
              LET path == results[platform].filename IN
              /\ path \in DOMAIN resdir
              /\ InResultsDir(path, BaseName(path))
              /\ BaseName(path) \notin DOMAIN cwd
              /\ resdir[path] >= 1
    /\ (opc = "after" /\ cpc = "recorded" /\ results[mem.platform].success) =>
          /\ Len(writes) = 1
          /\ results[mem.platform].filename = ResultsDir \o "/" \o writes[1].name
          /\ writes[1].name = ret
          /\ resdir[results[mem.platform].filename] = idx
    /\ (opc = "run" /\ RunSucceeded) =>
          /\ ret \in DOMAIN cwd
          /\ (ResultsDir \o "/" \o ret) \notin DOMAIN resdir

\* C19 happens: the second run of the same platform was recorded as a
\* success; both documents are in the results directory and none is left in
\* the working directory
C19_Witness ==
    /\ opc = "after" /\ idx = 2 /\ platforms = <<3, 3>>
    /\ results["github"].success
    /\ Cardinality(DOMAIN resdir) = 2
    /\ DOMAIN cwd = {}

\* the positions in the list of the platform runs recorded as successes so
\* far (the table keeps only the last outcome of a platform selected twice)
SucceededRuns ==
    {i \in 1..Len(slept) : slept[i].success}
        \cup (IF /\ opc \in {"after", "done", "summarized"}
                 /\ results[PlatformName(platforms[idx])].success
              THEN {idx} ELSE {})

\* C20: the documents of the successful platform runs of one orchestrator run
\* are all in the results directory, each under a name of its own: none was
\* replaced by the document of a later run, also when the same platform and
\* identity are run twice (the clock does not go back, and the cooldown puts
\* at least a second between two saves)
C20_NoDocumentOverwritten ==
    /\ \A i \in SucceededRuns : \E path \in DOMAIN resdir : resdir[path] = i
    /\ Cardinality(DOMAIN resdir) = Cardinality(SucceededRuns)
    /\ \A name \in DOMAIN cwd : (ResultsDir \o "/" \o name) \notin DOMAIN resdir

\* C20 happens: Reddit was run twice for the same identity, both runs
\* succeeded, and the run is over with two documents stored
C20_Witness ==
    /\ opc = "done" /\ platforms = <<6, 6>>
    /\ SucceededRuns = {1, 2}
    /\ {resdir[path] : path \in DOMAIN resdir} = {1, 2}

-----------------------------------------------------------------------------
(* The GitHub document *)

\* the three requests of the GitHub run in progress were made and answered
GitHubAllFetched ==
    /\ mem.platform = "github" /\ Len(reqlog) = 3
    /\ \A j \in 1..3 : reqlog[j].resp = "ok"

\* C21: when the profile, the repositories and the events were all fetched,
\* the GitHub document written has the login, public_repos and followers of
\* the profile as they came, one repositories entry per repository of the
\* answer and one events entry per event of the answer, in the same order
C21_GitHubDocumentMirrorsTheApi ==
    (GitHubAllFetched /\ writes # <<>>) =>
        LET data == writes[1].data
            user == reqlog[1].payload
            repos == reqlog[2].payload
            events == reqlog[3].payload IN
        /\ Len(writes) = 1
        /\ data.user_info.username = user.login
        /\ data.user_info.public_repos = user.public_repos
        /\ data.user_info.followers = user.followers
        /\ Len(data.repositories) = Len(repos)
        /\ \A i \in 1..Len(repos) : data.repositories[i].name = repos[i]
        /\ Len(data.events) = Len(events)
        /\ \A i \in 1..Len(events) : data.events[i].type = events[i]

\* C21 happens: the document of a profile with 8 public repositories and 100
\* followers, two repositories and one event was written
C21_Witness ==
    /\ GitHubAllFetched /\ RunSucceeded
    /\ writes[1].data.user_info.public_repos = 8
    /\ writes[1].data.user_info.followers = 100
    /\ Len(writes[1].data.repositories) = 2
    /\ Len(writes[1].data.events) = 1

-----------------------------------------------------------------------------
(* Termination of the pagination loops *)

\* the collection request site of the Bluesky or Mastodon run in progress,
\* what its loop has gathered so far and its cap
LoopSite == IF mem.platform = "bluesky" THEN "bluesky.getAuthorFeed"
            ELSE "mastodon.statuses"

Gathered == IF mem.platform = "bluesky" THEN mem.all_posts ELSE mem.all_statuses

LoopCap == IF mem.platform = "bluesky" THEN max_posts ELSE max_toots

\* C22: while a Bluesky or Mastodon loop goes on, every request it has made
\* has added at least one item and the cap is not reached; so the loop has
\* made at most cap (200) requests when it is left, whatever the server
\* answers, also one that always announces a next page
C22_LoopBoundedByCap ==
    mem.platform \in {"bluesky", "mastodon"} =>
        /\ Served(LoopSite) <= LoopCap
        /\ cpc \in {"bs_posts", "ms_statuses"} =>
               /\ Served(LoopSite) <= Len(Gathered)
               /\ Len(Gathered) < LoopCap

\* C22 happens: against a server that always sends one toot and a next link,
\* the Mastodon loop was left after 200 requests and its result was saved
C22_Witness ==
    /\ stub.step = "endless" /\ stub.n = 1
    /\ mem.platform = "mastodon" /\ RunSucceeded
    /\ Served("mastodon.statuses") = 200
    /\ Len(mem.statuses) = 200

-----------------------------------------------------------------------------
(* Continuation *)

IsLoopRequest(e) == e.site = LoopSite

\* the requests of the Bluesky or Mastodon loop of the run in progress
LoopLog == SelectSeq(reqlog, IsLoopRequest)

\* the link has the parameter rel="next" (a link is <url> followed by
\* ;-separated parameters)
IsNextLink(link) ==
    LET parts == StrSplit(link, ";") IN
    \E k \in 2..Len(parts) : StrStrip(parts[k]) = "rel=\"next\""

\* the URL of the first link of the header that has rel="next", "" if none
RelNextUrl(link_header) ==
    LET next == SelectSeq(StrSplit(link_header, ","), IsNextLink) IN
    IF next = <<>> THEN ""
    ELSE Inner(StrStrip(Head(StrSplit(Head(next), ";"))))

\* what answer j of the loop gives to continue with: the cursor, or the URL
\* of the rel="next" link
Continuation(j) ==
    IF mem.platform = "bluesky" THEN LoopLog[j].payload.cursor
    ELSE RelNextUrl(LoopLog[j].payload.link)

\* C23 as stated: the first request of the loop carries no cursor (goes to
\* the statuses URL of the account), request n+1 carries the cursor (goes to
\* the rel="next" URL) of answer n, and the loop is left before its cap only
\* on an answer with no items or without cursor (without rel="next" link)
C23_ContinuationEchoed ==
    (mem.platform \in {"bluesky", "mastodon"} /\ LoopLog # <<>>) =>
        LET n == Len(LoopLog) IN
        /\ LoopLog[1].payload.sent =
               (IF mem.platform = "bluesky" THEN ""
                ELSE "accounts/" \o mem.account.id \o "/statuses")
        /\ \A j \in 2..n :
               /\ Continuation(j - 1) # ""
               /\ LoopLog[j].payload.sent = Continuation(j - 1)
        /\ (/\ cpc \in {"bs_save", "ms_save", "returned"}
            /\ LoopLog[n].resp = "ok" /\ LoopLog[n].payload.n > 0
            /\ Continuation(n) # "") => Len(Gathered) >= LoopCap

-----------------------------------------------------------------------------
(* Several identities in one run *)

IsIdentityProfile(e) == e.site \in {"stackoverflow.profile", "youtube.channel"}

\* the profile requests of the Stack Overflow or YouTube run in progress
ProfileLog == SelectSeq(reqlog, IsIdentityProfile)

IsOk(e) == e.resp = "ok"

\* those that gave a profile
ProfilesFetched == SelectSeq(ProfileLog, IsOk)

\* the identity of an entry of the list of the document
EntryId(entry) ==
    IF mem.platform = "stackoverflow" THEN entry.user_info.user_id
    ELSE entry.channel_info.id

\* the run in progress is past the selection of its identities
Selected ==
    /\ opc = "run"
    /\ mem.platform \in {"stackoverflow", "youtube"}
    /\ mem.selected_ids # <<>>

\* the profiles are asked for in selection order, one per selected identity;
\* the list of the run holds, in that order, the identities whose profile
\* was fetched and whose collections are done; the loop is left after the
\* last identity; the one document has that list and its length; and run()
\* returns nothing, having written nothing, exactly when no profile was
\* fetched
IdentitiesAggregated ==
    Selected =>
        LET n == Len(ProfileLog)
            list == mem.all_data
            done == cpc \in {"so_save", "yt_save", "returned"} IN
        /\ n <= Len(mem.selected_ids)
        /\ \A j \in 1..n : ProfileLog[j].payload = mem.selected_ids[j]
        /\ Len(list) <= Len(ProfilesFetched)
        /\ \A i \in 1..Len(list) : EntryId(list[i]) = ProfilesFetched[i].payload
        /\ done => n = Len(mem.selected_ids) /\ Len(list) = Len(ProfilesFetched)
        /\ cpc \in {"so_save", "yt_save"} => list # <<>>
        /\ cpc = "returned" => (ret = RetNone <=> ProfilesFetched = <<>>)
        /\ (cpc = "returned" /\ ret = RetNone) => writes = <<>>
        /\ writes # <<>> =>
               LET data == writes[1].data
                   entries == IF mem.platform = "stackoverflow"
                              THEN data.users ELSE data.channels
                   total == IF mem.platform = "stackoverflow"
                            THEN data.total_users ELSE data.total_channels IN
               /\ Len(writes) = 1
               /\ entries = list /\ total = Len(entries)

\* this step goes from one selected identity to the next
NextIdentityStep ==
    /\ Selected /\ Selected'
    /\ mem'.pos = mem.pos + 1

\* this step leaves the loop over the selected identities
LeaveLoopStep ==
    /\ Selected /\ Selected'
    /\ cpc \notin {"so_save", "yt_save"}
    /\ cpc' \in {"so_save", "yt_save", "returned"}

\* C24: the selected Stack Overflow users and YouTube channels are extracted
\* in selection order; a second of cooldown passes between one identity and
\* the next, none after the last; an identity without profile is skipped;
\* the document holds one entry per identity with a profile and their number;
\* run() fails without a file exactly when no identity had a profile
C24_IdentitiesInOrderWithCooldown ==
    [][/\ IdentitiesAggregated'
       /\ NextIdentityStep => now' = now + 2
       /\ LeaveLoopStep => now' = now]_vars

\* C24 happens: of two selected Stack Overflow users the first had no profile
\* and the second had one; the document written holds the second user alone
C24_Witness ==
    /\ Selected /\ mem.platform = "stackoverflow" /\ RunSucceeded
    /\ mem.selected_ids = <<"u1", "u2">>
    /\ ProfileLog[1].resp = "reqexc" /\ ProfileLog[2].resp = "ok"
    /\ writes[1].data.total_users = 1
    /\ writes[1].data.users[1].user_info.user_id = "u2"

-----------------------------------------------------------------------------
(* main(): the command line, the prompts of the interactive mode, and the  *)
(* run that follows.  An argument is <<>> when it was not given (None) and  *)
(* <<text>> when it was.                                                    *)

UpperLetters == "ABCDEFGHIJKLMNOPQRSTUVWXYZ"

LowerLetters == "abcdefghijklmnopqrstuvwxyz"

LowerChar(c) ==
    LET i == Find(UpperLetters, c) IN
    IF i = 0 THEN c ELSE Char(LowerLetters, i)

\* str.lower()
RECURSIVE StrLower(_)
StrLower(s) ==
    IF Len(s) = 0 THEN s ELSE LowerChar(Char(s, 1)) \o StrLower(Tail1(s))

\* characters that are digits for str.isdigit() and that int() refuses
SuperscriptDigits == {"²"}

\* str.isdigit(): not empty, and every character has the digit property
PyIsDigit(s) ==
    /\ Len(s) > 0
    /\ \A i \in 1..Len(s) : Char(s, i) \in DigitChars \cup SuperscriptDigits

\* PLATFORMS_BY_NAME[name]
PlatformId(name) == CHOOSE pid \in PlatformIds : PlatformName(pid) = name

\* list(self.PLATFORMS.keys())
AllPlatforms == [i \in 1..8 |-> i]

\* the loop of _parse_platform_arg over the stripped parts: a part that
\* isdigit() is given to int(), which raises ValueError on a digit that is
\* no decimal digit; the number is kept when it is a key of PLATFORMS; any
\* other part is kept when its lower case is a platform name
RECURSIVE ParsePlatformParts(_, _)
ParsePlatformParts(parts, selected) ==
    IF parts = <<>> THEN [raised |-> FALSE, selected |-> selected]
    ELSE LET part == StrStrip(Head(parts)) IN
         IF PyIsDigit(part)
         THEN IF ~PyIntOk(part) THEN [raised |-> TRUE, selected |-> selected]
              ELSE ParsePlatformParts(Tail(parts),
                                      IF PyInt(part) \in PlatformIds
                                      THEN Append(selected, PyInt(part))
                                      ELSE selected)
         ELSE IF StrLower(part) \in PlatformNames
         THEN ParsePlatformParts(Tail(parts),
                                 Append(selected, PlatformId(StrLower(part))))
         ELSE ParsePlatformParts(Tail(parts), selected)

\* _parse_platform_arg
ParsePlatformArg(platforms_str) ==
    ParsePlatformParts(StrSplit(platforms_str, ","), <<>>)

\* bool(arg): given and not empty
Truthy(arg) == arg # <<>> /\ arg[1] # ""

\* run(): if self.args and (self.args.pattern or self.args.platforms)
CliMode == stub.step = "args" /\ (Truthy(stub.pattern) \/ Truthy(stub.platforms))

\* _run_cli_mode up to the list of selected platforms.  sys.exit(1) ends the
\* process; the AttributeError of None.lower() and the ValueError of int()
\* reach main(), which prints "Fatal error" and ends the process
RunCliMode_select ==
    /\ opc = "idle" /\ CliMode
    /\ IF ~Truthy(stub.pattern)
       THEN opc' = "exited" /\ platforms' = platforms
       ELSE IF stub.platforms = <<>>
       THEN opc' = "fatal" /\ platforms' = platforms
       ELSE IF StrLower(stub.platforms[1]) = "all"
       THEN opc' = "selected" /\ platforms' = AllPlatforms
       ELSE LET p == ParsePlatformArg(stub.platforms[1]) IN
            IF p.raised THEN opc' = "fatal" /\ platforms' = platforms
            ELSE IF p.selected = <<>> THEN opc' = "exited" /\ platforms' = platforms
            ELSE opc' = "selected" /\ platforms' = p.selected
    /\ UNCHANGED <<usernames, config, idx, results, cwd, resdir, now, clientVars,
                   stub, ran, slept, start_time, summary>>

\* usernames = {pid: username for pid in selected}; self._estimate_time;
\* self.start_time = datetime.now(); then _run_extractions
RunCliMode_configure ==
    /\ opc = "selected" /\ stub.step = "args"
    /\ usernames' = [pid \in Range(platforms) |-> stub.pattern[1]]
    /\ start_time' = now
    /\ opc' = "loop"
    /\ UNCHANGED <<platforms, config, idx, results, cwd, resdir, now, clientVars,
                   stub, ran, slept, summary>>

\* selected = [int(x.strip()) for x in choice.split(',') if x.strip()]
RECURSIVE MenuInts(_)
MenuInts(parts) ==
    IF parts = <<>> THEN [raised |-> FALSE, ints |-> <<>>]
    ELSE LET x == StrStrip(Head(parts))
             rest == MenuInts(Tail(parts)) IN
         IF x = "" THEN rest
         ELSE IF ~PyIntOk(x) \/ rest.raised THEN [raised |-> TRUE, ints |-> <<>>]
         ELSE [raised |-> FALSE, ints |-> <<PyInt(x)>> \o rest.ints]

IsPlatformId(s) == s \in PlatformIds

\* _select_platforms: Enter, a ValueError and a selection without any known
\* number all select every platform
SelectPlatforms(typed) ==
    LET choice == StrStrip(typed) IN
    IF choice = "" THEN AllPlatforms
    ELSE LET p == MenuInts(StrSplit(choice, ",")) IN
         IF p.raised THEN AllPlatforms
         ELSE LET selected == SelectSeq(p.ints, IsPlatformId) IN
              IF selected = <<>> THEN AllPlatforms ELSE selected

\* what the model types at the platform menu
MenuChoices == {"", " 3", "6,,3", "x", "9"}

\* selected = self._select_platforms()
RunInteractiveMode_select ==
    /\ opc = "idle" /\ ~CliMode
    /\ \E typed \in MenuChoices :
         /\ platforms' = SelectPlatforms(typed)
         /\ stub' = [step |-> "menu", typed |-> typed]
    /\ opc' = "selected"
    /\ UNCHANGED <<usernames, config, idx, results, cwd, resdir, now, clientVars,
                   ran, slept, start_time, summary>>

\* the answers that mean "the same username for all platforms"
SameAnswers == {"y", "yes", "o", "oui", ""}

\* what the model types at the username prompts
UseSameChoices == {"Y", " oui ", "", "n"}

TypedUsernames == {"octocat", " mona "}

\* usernames = self._configure_usernames(selected): one username for all
\* platforms, or one per selected platform, each stripped; then
\* self._estimate_time; self.start_time = datetime.now()
RunInteractiveMode_configure ==
    /\ opc = "selected" /\ stub.step = "menu"
    /\ \E use_same \in UseSameChoices :
         IF StrLower(StrStrip(use_same)) \in SameAnswers
         THEN \E username \in TypedUsernames :
                usernames' = [pid \in Range(platforms) |-> StrStrip(username)]
         ELSE \E typed \in [Range(platforms) -> TypedUsernames] :
                usernames' = [pid \in Range(platforms) |-> StrStrip(typed[pid])]
    /\ start_time' = now
    /\ opc' = "loop"
    /\ UNCHANGED <<platforms, config, idx, results, cwd, resdir, now, clientVars,
                   stub, ran, slept, summary>>

\* the command lines of the model
PatternArgs == {<<>>, <<"">>, <<"octocat">>}

PlatformsArgs ==
    {<<>>, <<"">>, <<"all">>, <<"ALL">>, <<"3">>, <<"1">>, <<"9">>, <<"x">>,
     <<"x,3">>, <<" 7 ,nope,GitHub">>, <<"03">>, <<"all,6">>, <<"²">>, <<"3,²">>,
     <<"YouTube">>, <<"4">>, <<"5">>, <<"telegram">>}

\* config.yaml for these runs: every credential present, or none
MainConfigs ==
    {c \in Configs : c.youtube_key = c.telegram_id /\ c.telegram_id = c.telegram_hash}

\* after parser.parse_args() and ExtractorOrchestrator(args=args):
\* self.results = {}, self.start_time = None (0 here)
InitMain ==
    /\ platforms = <<>>
    /\ usernames = <<>>
    /\ config \in MainConfigs
    /\ idx = 1
    /\ opc = "idle"
    /\ results = <<>>
    /\ cwd = <<>>
    /\ resdir = <<>>
    /\ now \in StartTimes
    /\ cpc = "idle"
    /\ mem = IdleMem
    /\ ret = RetNone
    /\ reqlog = <<>>
    /\ writes = <<>>
    /\ \E pattern \in PatternArgs, platforms_arg \in PlatformsArgs :
         stub = [step |-> "args", pattern |-> pattern, platforms |-> platforms_arg]
    /\ ran = <<>>
    /\ slept = <<>>
    /\ start_time = 0
    /\ summary = <<>>

\* _run_extractions and _show_summary, followed for the selections of up to
\* MaxSelected platforms
RunExtractions == Len(platforms) <= MaxSelected /\ Next

NextMain ==
    \/ RunCliMode_select
    \/ RunCliMode_configure
    \/ RunInteractiveMode_select
    \/ RunInteractiveMode_configure
    \/ RunExtractions

SpecMain == InitMain /\ [][NextMain]_vars

-----------------------------------------------------------------------------
(* The order of a run *)

\* a platform run starts in this step
RunStarts == ran' # ran

\* the summary is printed in this step
SummaryEmitted == summary' # summary

\* the outcome of the run started last is in the table, and its extractor
\* has returned or raised (or was never created)
LastOutcomeRecorded ==
    /\ ran # <<>>
    /\ ran[Len(ran)] \in DOMAIN results
    /\ cpc \in {"recorded", "caught", "idle"}

\* C25: the platforms are selected first, then the identities are fixed, and
\* neither changes afterwards; a platform run starts only when both are
\* fixed and the outcome of the run before it is recorded, in the order of
\* the selection, so that at most one extractor runs at a time; the summary
\* is printed once, after the outcome of the last selected platform is
\* recorded, and nothing happens after it.
C25_SelectConfigureRunSummarize ==
    [][/\ platforms' # platforms =>
            opc = "idle" /\ platforms = <<>> /\ usernames = <<>> /\ ran = <<>>
       /\ usernames' # usernames =>
            /\ opc = "selected" /\ platforms # <<>> /\ platforms' = platforms
            /\ ran = <<>>
            /\ DOMAIN usernames' = Range(platforms)
       /\ RunStarts =>
            /\ opc = "loop" /\ platforms # <<>>
            /\ DOMAIN usernames = Range(platforms)
            /\ platforms' = platforms /\ usernames' = usernames
            /\ Len(ran) = idx - 1
            /\ ran' = Append(ran, PlatformName(platforms[idx]))
            /\ ran # <<>> => LastOutcomeRecorded /\ Len(slept) = Len(ran)
       /\ opc' = "run" => mem'.platform = ran'[Len(ran')] /\ Len(ran') = idx'
       /\ SummaryEmitted =>
            /\ opc = "done" /\ summary = <<>> /\ Len(summary') = 1
            /\ Len(ran) = Len(platforms) /\ idx = Len(platforms)
            /\ LastOutcomeRecorded
            /\ \A i \in 1..Len(platforms) :
                 PlatformName(platforms[i]) \in DOMAIN results
       /\ opc # "summarized"]_vars

\* an interactive run of two platforms with a username typed for each has
\* printed its summary
C25_Witness ==
    /\ opc = "summarized" /\ Len(summary) = 1
    /\ Len(platforms) = 2 /\ Len(ran) = 2
    /\ usernames[platforms[1]] # usernames[platforms[2]]

-----------------------------------------------------------------------------
(* The table of outcomes *)

\* the outcome carries the path of a stored file
HasStoredPath(outcome) ==
    "filename" \in DOMAIN outcome /\ outcome.filename # RetNone

\* the platform names of the runs whose outcome is recorded: every run that
\* was started, but the one in progress
RecordedNames ==
    {ran[i] : i \in {j \in 1..Len(ran) :
                       j < Len(ran) \/ opc \notin {"run", "cancelled"}}}

\* the distinct platform names of the selection
SelectedNames == {PlatformName(platforms[i]) : i \in 1..Len(platforms)}

\* the run in progress has just been recorded as this outcome
OutcomeOfThisRun(outcome) ==
    /\ outcome.username = usernames[platforms[idx]]
    /\ outcome.success <=>
          /\ cpc = "recorded" /\ ret # RetNone
          /\ HasStoredPath(outcome)
          /\ outcome.filename = DestPath(ret)
          /\ outcome.filename \in DOMAIN resdir

\* C26: an outcome is successful exactly when it carries the path of a stored
\* file; the table has one outcome per platform name whose run is recorded;
\* no step removes an outcome; and right after a run is recorded, the outcome
\* under its platform name is the one of that run, also when an earlier run
\* of the same platform was recorded before; at the end there are as many
\* outcomes as distinct selected platform names.
C26_OneOutcomePerNameLastRunWins ==
    [][/\ \A name \in DOMAIN results' :
            results'[name].success <=> HasStoredPath(results'[name])
       /\ DOMAIN results \subseteq DOMAIN results'
       /\ DOMAIN results' = RecordedNames'
       /\ opc' = "after" => OutcomeOfThisRun(results[ran[Len(ran)]])'
       /\ opc' \in {"done", "summarized"} =>
            Cardinality(DOMAIN results') = Cardinality(SelectedNames)]_vars

\* one platform selected twice: its first run succeeded, its second run
\* failed, and the table holds the failure only
C26_Witness ==
    /\ opc = "after" /\ idx = 2 /\ platforms[1] = platforms[2]
    /\ slept[1].success
    /\ ~results[ran[2]].success
    /\ Cardinality(DOMAIN results) = 1

-----------------------------------------------------------------------------
(* Files of a failed run *)

\* the run in progress has been recorded as failed
RecordedAsFailed ==
    opc = "after" /\ ~results[ran[Len(ran)]].success

\* a document written by the run in progress is on disk, in the working
\* directory or in the results directory
FileOfThisRunOnDisk ==
    \E i \in 1..Len(writes) :
        \/ writes[i].name \in DOMAIN cwd /\ cwd[writes[i].name] = idx
        \/ /\ DestPath(writes[i].name) \in DOMAIN resdir
           /\ resdir[DestPath(writes[i].name)] = idx

\* C27: a run recorded as failed has left no document on disk, neither in
\* the working directory nor in the results directory.
C27_FailedRunLeavesNoFile ==
    RecordedAsFailed => ~FileOfThisRunOnDisk

-----------------------------------------------------------------------------
(* The Telegram session *)

\* the Telegram run in progress has connected
TelegramConnected ==
    /\ mem.platform = "telegram"
    /\ \E i \in 1..Len(reqlog) :
         reqlog[i].site = "telegram.connect" /\ reqlog[i].resp = "ok"

\* run() has handed control back to the orchestrator
BackInOrchestrator == opc = "run" /\ cpc \in {"returned", "raised"}

\* C28: when a Telegram run that had connected hands control back to the
\* orchestrator, by a return or by an exception, the session is
\* disconnected.
C28_TelegramSessionClosedOnEveryExit ==
    TelegramConnected /\ BackInOrchestrator => ~mem.connected

-----------------------------------------------------------------------------
(* The command line *)

\* a part of the platforms argument is a number 1-8
IsPlatformNumber(part) ==
    /\ Len(part) > 0
    /\ \A i \in 1..Len(part) : Char(part, i) \in DigitChars
    /\ DigitsVal(part) \in PlatformIds

\* the platform a part of the platforms argument stands for, 0 when the part
\* is unknown
KnownPlatform(part) ==
    IF IsPlatformNumber(part) THEN DigitsVal(part)
    ELSE IF StrLower(part) \in PlatformNames THEN PlatformId(StrLower(part))
    ELSE 0

IsKnown(pid) == pid # 0

\* the platforms an argument resolves to: all of them for "all", else the
\* known parts in the order they were given
Resolved(platforms_str) ==
    IF StrLower(platforms_str) = "all" THEN AllPlatforms
    ELSE LET parts == StrSplit(platforms_str, ",") IN
         SelectSeq([i \in 1..Len(parts) |-> KnownPlatform(StrStrip(parts[i]))],
                   IsKnown)

\* the command line gives a pattern and platforms that resolve to something
GoodCommandLine ==
    /\ Truthy(stub.pattern)
    /\ stub.platforms # <<>>
    /\ Resolved(stub.platforms[1]) # <<>>

\* C29: in CLI mode the command line is read first; when it gives a pattern
\* and platforms that resolve to at least one known platform, the selection
\* is the known parts of the platforms argument in input order, the unknown
\* parts being dropped, and only then does a run start; any other command
\* line ends the process with no platform selected, no extractor started
\* and no request made.
C29_CliSelectsKnownTokensOrEnds ==
    [][/\ opc = "idle" /\ CliMode =>
            IF GoodCommandLine
            THEN opc' = "selected" /\ platforms' = Resolved(stub.platforms[1])
            ELSE /\ opc' \in {"exited", "fatal"}
                 /\ platforms' = <<>> /\ ran' = <<>> /\ reqlog' = <<>>
       /\ RunStarts /\ stub.step = "args" =>
            GoodCommandLine /\ platforms = Resolved(stub.platforms[1])
       /\ opc \notin {"exited", "fatal"}]_vars

-----------------------------------------------------------------------------
(* An empty Medium feed *)

\* the Medium run in progress fetched and parsed a feed without any article
EmptyFeedFetched ==
    /\ mem.platform = "medium" /\ opc \in {"run", "after"}
    /\ reqlog # <<>>
    /\ reqlog[Len(reqlog)].site = "medium.feed"
    /\ reqlog[Len(reqlog)].resp = "ok"
    /\ reqlog[Len(reqlog)].payload = <<>>

\* C30: a Medium run whose feed was fetched and parsed and holds no article
\* returns no filename and writes nothing, and is recorded as failed; no
\* Medium document with an empty list of articles is ever written.
C30_EmptyMediumFeedIsAFailure ==
    /\ EmptyFeedFetched =>
          /\ cpc \in {"returned", "recorded"} /\ ret = RetNone
          /\ writes = <<>>
          /\ opc = "after" => ~results["medium"].success
    /\ mem.platform = "medium" =>
          \A i \in 1..Len(writes) : writes[i].data.articles # <<>>

\* a Medium run on an empty feed has been recorded as failed
C30_Witness ==
    EmptyFeedFetched /\ opc = "after" /\ ~results["medium"].success

====
